---- MODULE Spec2Model ----
(***************************************************************************)
(* Model of the adaptive double-pendulum sampler (src/src/pendulum.rs,     *)
(* src/src/main.rs).                                                       *)
(*                                                                         *)
(* Numbers.  The program computes in f64.  Every geometric quantity the    *)
(* model meets is a dyadic integer (anchors, arm lengths, widths), so it   *)
(* is kept as an integer; `scale` is kept in fixed point, ScaleOne units   *)
(* standing for 1.0.  The phase state (theta1, theta2, dt1, dt2, d2t1,     *)
(* d2t2) is not computed: the only thing the partition manager ever reads  *)
(* from it is the boundary-crossing test of step(), which is an input of   *)
(* the model (the position in the batch of steps at which the crossing     *)
(* test first succeeds, 0 for never).                                      *)
(***************************************************************************)
EXTENDS Integers, Sequences, FiniteSets, TLC

\* ------------------------------------------------------------------ bounds
\* generations (PendulumFamily::update calls) explored by Spec
MaxIter == 3
\* number of cells whose crossing test succeeds in one generation
MaxFlips == 2
\* generations explored by SchedSpec (the fan-out/fan-in in single steps)
SchedMaxIter == 2
\* generations explored by GameSpec
GameMaxIter == 3
\* worker threads of SchedSpec (the program spawns 11, pendulum.rs:547)
NumWorkers == 2
\* sub-pixel resolution of the lengths AdjacentSpec works with
ProbeUnit == 20
\* add calls explored by AvgSpec
MaxAdds == 4
\* largest window capacity explored by AvgSpec
MaxCapacity == 3
\* generations explored by PauseSpec
PauseMaxIter == 2
\* step calls explored by StepSpec
MaxProbeSteps == 3
\* add calls (after that of the root) explored by FindSpec
MaxAdded == 2
\* generations explored by FindSpec
FindMaxIter == 1
\* generations explored by DiveSpec before the call of dive it looks at
DiveMaxIter == 2
\* cells whose crossing test succeeds in the generation DiveSpec looks at
DiveFlips == 1
\* generations explored by FanSpec
FanMaxIter == 2
\* largest number of cells of the families FanSpec starts from
MaxFan == 3
\* generations explored by SweepSpec
SweepMaxIter == 12
\* cells whose crossing test succeeds in one generation of SweepSpec
SweepFlips == 1

\* ------------------------------------------------------- program constants
\* fixed-point unit of `scale`: ScaleOne stands for the f64 1.0
ScaleOne == 1024
\* PendulumFamily::new: update_steps: 100
InitUpdateSteps == 100
\* PendulumFamily::update: update_steps = 10 + exp(exp(iter/speed_a)/speed_b)
BaseUpdateSteps == 10
\* PendulumFamily::dive: width() < 16.0
SmallFootprint == 16
\* std::f64::consts::PI in hundredths, the unit of the angles of StepSpec
PiHundredths == 314
\* PendulumFamily::new: RollingAverage::new(1000)
AvgSize == 1000

\* positions in a batch of steps at which the crossing test of step() can
\* succeed (0: it does not succeed in this batch)
FlipSteps == {2, 9}

\* ------------------------------------------------------------ configuration
\* main.rs: WIDTH = 2048 and the Config literal of MyGame::new
\* (dive_diff in hundredths, color_step already multiplied by STEP_DELTA)
MainConfig ==
    [width |-> 2048, min_pixel |-> 4, dive_diff |-> 82, max_step |-> 460000,
     color_step |-> 1, color_mod |-> 6000]

\* a small domain: two levels of subdivision, the second below min_pixel and
\* below the small-footprint guard; the step ceiling is the first batch
SmallConfig ==
    [width |-> 64, min_pixel |-> 16, dive_diff |-> 82, max_step |-> 100,
     color_step |-> 1, color_mod |-> 6000]

Configs == {MainConfig, SmallConfig}

\* ------------------------------------------------------------------ helpers
Abs(x) == IF x < 0 THEN -x ELSE x

Min(a, b) == IF a < b THEN a ELSE b

Max(a, b) == IF a < b THEN b ELSE a

Range(s) == {s[i] : i \in 1..Len(s)}

\* HashMap::insert
MapPut(m, k, v) == [x \in (DOMAIN m) \cup {k} |-> IF x = k THEN v ELSE m[x]]

EmptyMap == [x \in {} |-> 0]

\* all orders in which a set can be iterated
Perms(S) == {s \in [1..Cardinality(S) -> S] : \A i, j \in 1..Cardinality(S) : s[i] = s[j] => i = j}

\* ---------------------------------------------------------- DoublePendulum
White == <<"white", 0, 1>>

Gray == <<"gray", 0, 1>>

\* DoublePendulum::new
NewCell(px, py, scale) ==
    [id |-> 0, parent_id |-> 0, childs |-> <<>>, px |-> px, py |-> py,
     l1 |-> 80, l2 |-> 80, scale |-> scale, neighbors |-> <<>>,
     stopped |-> FALSE, steps |-> 0, prev |-> "inf", color |-> White,
     expired |-> FALSE]

\* DoublePendulum::new2
New2(px, py, width, scale) ==
    [NewCell(px, py, scale) EXCEPT !.l1 = width \div 4, !.l2 = width \div 4]

\* DoublePendulum::width
CellWidth(c) == ((c.l1 + c.l2) * c.scale) \div ScaleOne

\* variant of Quadrants: the four quadrants without the tests against the
\* borders of the domain
QuadrantsAll(c, width) ==
    LET d == CellWidth(c) \div 2
    IN <<New2(c.px - d, c.py - d, width, c.scale \div 2),
         New2(c.px - d, c.py + d, width, c.scale \div 2),
         New2(c.px + d, c.py - d, width, c.scale \div 2),
         New2(c.px + d, c.py + d, width, c.scale \div 2)>>

\* DoublePendulum::split: the quadrants, in the order the code tests them
Quadrants(c, width) ==
    LET d == CellWidth(c) \div 2
        q(cond, x, y) == IF cond THEN <<New2(x, y, width, c.scale \div 2)>> ELSE <<>>
    IN    q(c.px - d > 0 /\ c.py - d > 0, c.px - d, c.py - d)
       \o q(c.px - d > 0 /\ c.py + d < width, c.px - d, c.py + d)
       \o q(c.px + d < width /\ c.py - d > 0, c.px + d, c.py - d)
       \o q(c.px + d < width /\ c.py + d < width, c.px + d, c.py + d)

\* DoublePendulum::split, lines 151-157: the ids the children have at that
\* moment are recorded in childs, the children take the colour of the cell
SplitInto(c, qs) ==
    [self |-> [c EXCEPT !.childs = @ \o [i \in 1..Len(qs) |-> qs[i].id]],
     res  |-> [i \in 1..Len(qs) |-> [qs[i] EXCEPT !.color = c.color]],
     ok   |-> c.stopped]

\* variant of Split: without the test of line 114
SplitNoFloor(c, width, min_pixel) == SplitInto(c, Quadrants(c, width))

\* DoublePendulum::split.  self: the cell after the call, res: the children,
\* ok: the assertion self.stopped
Split(c, width, min_pixel) ==
    IF CellWidth(c) < min_pixel
    THEN [self |-> c, res |-> <<>>, ok |-> c.stopped]
    ELSE SplitInto(c, Quadrants(c, width))

\* variant of Step: without the early return of line 169
StepRestart(c, max_step, cross) ==
    IF c.steps >= max_step
    THEN [c EXCEPT !.stopped = TRUE, !.expired = TRUE]
    ELSE [c EXCEPT !.steps = @ + 1,
                   !.stopped = (c.prev = "finite" /\ cross),
                   !.prev = "finite"]

\* DoublePendulum::step; cross: the value of the crossing test of
\* pendulum.rs:210-211 on the new theta2, dt2 and the old prev
Step(c, max_step, cross) ==
    IF c.stopped THEN c
    ELSE IF c.steps >= max_step
    THEN [c EXCEPT !.stopped = TRUE, !.expired = TRUE]
    ELSE [c EXCEPT !.steps = @ + 1,
                   !.stopped = (c.prev = "finite" /\ cross),
                   !.prev = "finite"]

\* the loop of DoublePendulum::update, iterations lo..hi in their order (the
\* range is halved, and the first half is evaluated before the second starts,
\* so that the evaluation does not nest hi - lo deep; steps is never negative)
RECURSIVE UpdateFrom(_, _, _, _, _)
UpdateFrom(c, lo, hi, max_step, flip) ==
    IF lo > hi THEN c
    ELSE IF lo = hi THEN Step(c, max_step, lo = flip)
    ELSE LET mid == (lo + hi) \div 2
             c1  == UpdateFrom(c, lo, mid, max_step, flip)
         IN IF c1.steps >= 0 THEN UpdateFrom(c1, mid + 1, hi, max_step, flip) ELSE c1

\* DoublePendulum::update: update_steps calls of step
DPUpdate(c, update_steps, max_step, flip) == UpdateFrom(c, 1, update_steps, max_step, flip)

\* f64 values: a number (in hundredths), NaN, or +infinity
Num(n) == [k |-> "num", v |-> n]

NaN == [k |-> "nan", v |-> 0]

Inf == [k |-> "inf", v |-> 0]

\* f64::is_finite, f64::is_nan
IsFinite(x) == x.k = "num"

IsNaN(x) == x.k = "nan"

\* the comparisons < and > of f64: false when an operand is NaN
FLt(x, y) ==
    \/ x.k = "num" /\ y.k = "num" /\ x.v < y.v
    \/ x.k = "num" /\ y.k = "inf"

FGt(x, y) == FLt(y, x)

\* the test of pendulum.rs:210-211 on the new theta2, the new dt2 and prev
CrossTest(theta2, dt2, prev) ==
    LET pi == Num(PiHundredths)
        mpi == Num(-PiHundredths)
    IN \/ (FGt(dt2, Num(0)) /\ (  (FLt(theta2, mpi) /\ FGt(prev, mpi))
                                \/ (FGt(theta2, pi) /\ FLt(prev, pi))))
       \/ (FLt(dt2, Num(0)) /\ (  (FLt(theta2, mpi) /\ FGt(prev, mpi))
                                \/ (FLt(theta2, pi) /\ FGt(prev, pi))))

\* variant of StepPhase: the step at the ceiling is counted
StepPhaseCounted(ph, max_step, new) ==
    IF ph.c.stopped THEN ph
    ELSE IF ph.c.steps >= max_step
    THEN [ph EXCEPT !.c.stopped = TRUE, !.c.expired = TRUE, !.c.steps = @ + 1]
    ELSE [c      |-> [ph.c EXCEPT !.steps = @ + 1,
                                  !.stopped = (IsFinite(ph.prev)
                                               /\ CrossTest(new.theta2, new.dt2, ph.prev)),
                                  !.prev = IF IsFinite(new.theta2) THEN "finite" ELSE new.theta2.k],
          theta2 |-> new.theta2,
          dt2    |-> new.dt2,
          prev   |-> new.theta2]

\* DoublePendulum::step with the phase in view.  ph: the cell c and its
\* theta2, dt2 and prev; new: the theta2 and dt2 that lines 180-201 compute.
\* The field prev of the cell record says whether prev is finite
StepPhase(ph, max_step, new) ==
    IF ph.c.stopped THEN ph
    ELSE IF ph.c.steps >= max_step
    THEN [ph EXCEPT !.c.stopped = TRUE, !.c.expired = TRUE]
    ELSE [c      |-> [ph.c EXCEPT !.steps = @ + 1,
                                  !.stopped = (IsFinite(ph.prev)
                                               /\ CrossTest(new.theta2, new.dt2, ph.prev)),
                                  !.prev = IF IsFinite(new.theta2) THEN "finite" ELSE new.theta2.k],
          theta2 |-> new.theta2,
          dt2    |-> new.dt2,
          prev   |-> new.theta2]

\* DoublePendulum::update_color: gray when expired, else the hue
\* steps * color_step % color_mod out of color_mod
UpdateColor(c, color_step, color_mod) ==
    IF c.expired THEN [c EXCEPT !.color = Gray]
    ELSE [c EXCEPT !.color = <<"hue", (c.steps * color_step) % color_mod, color_mod>>]

\* variant of AdjacentIn: the sum of the widths taken as twice the width of
\* the cell the method is called on
AdjacentOwnWidth(a, b, unit) ==
    LET w2 == CellWidth(a) + CellWidth(a)
        dx == Abs(a.px - b.px)
        dy == Abs(a.py - b.py)
    IN \/ (dx <= w2 /\ 10 * Abs(dy - w2) < unit)
       \/ (dy <= w2 /\ 10 * Abs(dx - w2) < unit)

\* DoublePendulum::adjacent on lengths given in 1/unit of a pixel:
\* epsilon = 0.1 is unit/10
AdjacentIn(a, b, unit) ==
    LET w2 == CellWidth(a) + CellWidth(b)
        dx == Abs(a.px - b.px)
        dy == Abs(a.py - b.py)
    IN \/ (dx <= w2 /\ 10 * Abs(dy - w2) < unit)
       \/ (dy <= w2 /\ 10 * Abs(dx - w2) < unit)

\* DoublePendulum::adjacent on lengths in pixels
Adjacent(a, b) == AdjacentIn(a, b, 1)

\* ---------------------------------------------------------- PendulumFamily
\* The operators below thread a record st through the code of one update
\* call: ps (self.ps, the cells as they were dispatched), done, dive,
\* counter, log (one entry per executed split: the cell id, its width, the
\* number of children, the place of the call) and ok (no assertion failed).

LogEntry(c, r, site) ==
    [id |-> c.id, w |-> CellWidth(c), n |-> Len(r.res), stopped |-> c.stopped,
     expired |-> c.expired, site |-> site]

\* asteps as f64 / bsteps as f64 < dive_diff (0/0 is NaN and compares false)
RatioBelow(asteps, bsteps, dive_diff) ==
    bsteps # 0 /\ asteps * 100 < dive_diff * bsteps

\* variant of Qualifies: the flags expired are not read
QualifiesNoExpiry(p, n, cfg) ==
    /\ RatioBelow(Min(p.steps, n.steps), Max(p.steps, n.steps), cfg.dive_diff)
    /\ Adjacent(p, n)

\* the test of pendulum.rs:495 on the examined cell p and its neighbour n
Qualifies(p, n, cfg) ==
    /\ \/ RatioBelow(Min(p.steps, n.steps), Max(p.steps, n.steps), cfg.dive_diff)
       \/ p.expired
       \/ n.expired
    /\ Adjacent(p, n)

\* PendulumFamily::dive, lines 506-509: the neighbour n is split (r), kept
\* for update_neighbors, skipped from now on and marked
DiveNeighbor(acc, n, r) ==
    [skip |-> acc.skip \cup {n.id},
     add_current |-> acc.add_current,
     to_update |-> Append(acc.to_update, <<n.id, r.res>>),
     st |-> [acc.st EXCEPT !.done = MapPut(@, n.id, r.self),
                           !.dive = @ \cup {n.id},
                           !.log = Append(@, LogEntry(n, r, "dive_n")),
                           !.ok = @ /\ r.ok]]

\* PendulumFamily::dive, the loop over p.neighbors from position i on.
\* acc: skip, add_current, to_update and the threaded st
RECURSIVE DiveLoop(_, _, _, _, _)
DiveLoop(acc, p, nearest, i, cfg) ==
    IF i > Len(nearest) THEN acc
    ELSE LET nid == nearest[i]
             st  == acc.st
         IN IF nid \in acc.skip \/ nid \notin DOMAIN st.done
            THEN DiveLoop(acc, p, nearest, i + 1, cfg)
            ELSE LET n == st.done[nid]
                 IN IF ~Qualifies(p, n, cfg)
                    THEN DiveLoop(acc, p, nearest, i + 1, cfg)
                    ELSE IF p.expired /\ n.expired /\ CellWidth(n) < SmallFootprint
                    THEN DiveLoop(acc, p, nearest, i + 1, cfg)
                    ELSE IF n.id \in st.dive
                    THEN DiveLoop([acc EXCEPT !.add_current = TRUE], p, nearest, i + 1, cfg)
                    ELSE DiveLoop(DiveNeighbor(acc, n, Split(n, cfg.width, cfg.min_pixel)),
                                  p, nearest, i + 1, cfg)

\* PendulumFamily::dive, lines 514-516: the examined cell p is split (r),
\* marked and kept for update_neighbors
DiveCurrent(acc, p, r) ==
    [to_update |-> Append(acc.to_update, <<p.id, r.res>>),
     st |-> [acc.st EXCEPT !.done = MapPut(@, p.id, r.self),
                           !.dive = @ \cup {p.id},
                           !.log = Append(@, LogEntry(p, r, "dive_p")),
                           !.ok = @ /\ r.ok]]

\* variant of DiveSelf: without the test !self.dive.contains(&p.id)
DiveSelfNoMark(acc, p, cfg) ==
    IF /\ ~(p.expired /\ CellWidth(p) < SmallFootprint)
       /\ (Len(acc.to_update) > 0 \/ acc.add_current)
    THEN DiveCurrent(acc, p, Split(p, cfg.width, cfg.min_pixel))
    ELSE [to_update |-> acc.to_update, st |-> acc.st]

\* variant of DiveSelf: add_current is not read
DiveSelfNoAddCurrent(acc, p, cfg) ==
    IF /\ p.id \notin acc.st.dive
       /\ ~(p.expired /\ CellWidth(p) < SmallFootprint)
       /\ Len(acc.to_update) > 0
    THEN DiveCurrent(acc, p, Split(p, cfg.width, cfg.min_pixel))
    ELSE [to_update |-> acc.to_update, st |-> acc.st]

\* PendulumFamily::dive, lines 513-518, after the loop has left acc
DiveSelf(acc, p, cfg) ==
    IF /\ p.id \notin acc.st.dive
       /\ ~(p.expired /\ CellWidth(p) < SmallFootprint)
       /\ (Len(acc.to_update) > 0 \/ acc.add_current)
    THEN DiveCurrent(acc, p, Split(p, cfg.width, cfg.min_pixel))
    ELSE [to_update |-> acc.to_update, st |-> acc.st]

\* PendulumFamily::dive on the newly stopped cell pid, which is the object
\* registered in done under that id (update inserts the same Rc in both)
Dive(st, pid, cfg) ==
    LET p == st.done[pid]
    IN DiveSelf(DiveLoop([skip |-> {p.id}, add_current |-> FALSE, to_update |-> <<>>,
                          st |-> [st EXCEPT !.ok = @ /\ p.stopped]],
                         p, p.neighbors, 1, cfg),
                p, cfg)

\* PendulumFamily::update_neighbors, the inner loop over the neighbours of
\* the parent (the snapshot pn) for the child c, from position i on
RECURSIVE LinkLoop(_, _, _, _)
LinkLoop(acc, pn, parent_id, i) ==
    IF i > Len(pn) THEN acc
    ELSE LET nid == pn[i]
             st  == acc.st
             c   == acc.c
         IN IF nid = parent_id
            THEN LinkLoop(acc, pn, parent_id, i + 1)
            ELSE IF nid \in DOMAIN st.done
            THEN IF Adjacent(c, st.done[nid])
                 THEN LinkLoop(
                        [c  |-> [c EXCEPT !.neighbors = Append(@, st.done[nid].id)],
                         st |-> [st EXCEPT !.done[nid].neighbors = Append(@, c.id)]],
                        pn, parent_id, i + 1)
                 ELSE LinkLoop(acc, pn, parent_id, i + 1)
            ELSE IF nid \in DOMAIN st.ps
            THEN IF Adjacent(c, st.ps[nid])
                 THEN LinkLoop(
                        [c  |-> [c EXCEPT !.neighbors = Append(@, st.ps[nid].id)],
                         st |-> [st EXCEPT !.ps[nid].neighbors = Append(@, c.id)]],
                        pn, parent_id, i + 1)
                 ELSE LinkLoop(acc, pn, parent_id, i + 1)
            ELSE LinkLoop(acc, pn, parent_id, i + 1)

\* variant of ChildDone: the counter of the family is not carried over to
\* the next child
ChildDoneSameCounter(acc, r) ==
    [out |-> Append(acc.out, r.c), nbs |-> Append(acc.nbs, r.c.id),
     st |-> [r.st EXCEPT !.counter = acc.st.counter]]

\* the outer loop, one child done: r holds the child and the threaded st
ChildDone(acc, r) ==
    [out |-> Append(acc.out, r.c), nbs |-> Append(acc.nbs, r.c.id), st |-> r.st]

\* the outer loop over the children, from position j on
RECURSIVE ChildLoop(_, _, _, _, _)
ChildLoop(acc, p, parent_id, childs, j) ==
    IF j > Len(childs) THEN acc
    ELSE LET cnt == acc.st.counter + 1
         IN ChildLoop(
              ChildDone(acc,
                        LinkLoop([c  |-> [childs[j] EXCEPT !.id = cnt, !.parent_id = p.id],
                                  st |-> [acc.st EXCEPT !.counter = cnt]],
                                 p.neighbors, parent_id, 1)),
              p, parent_id, childs, j + 1)

\* variant of ExtendAll: every child gets its own id and then the ids of all
\* the children
ExtendAllAndSelf(r) ==
    [childs |-> [j \in 1..Len(r.out) |->
                    [r.out[j] EXCEPT !.neighbors = (@ \o <<r.out[j].id>>) \o r.nbs]],
     st |-> r.st]

\* lines 470-472: every child gets the ids of all the children
ExtendAll(r) ==
    [childs |-> [j \in 1..Len(r.out) |-> [r.out[j] EXCEPT !.neighbors = @ \o r.nbs]],
     st |-> r.st]

\* PendulumFamily::update_neighbors: the children with their ids, parent and
\* neighbours, and the threaded st
UpdateNeighbors(st, parent_id, childs) ==
    ExtendAll(ChildLoop([out |-> <<>>, nbs |-> <<>>, st |-> st],
                        st.done[parent_id], parent_id, childs, 1))

\* HashMap::insert of every child of a sequence
RECURSIVE InsertAll(_, _, _)
InsertAll(m, cs, j) ==
    IF j > Len(cs) THEN m ELSE InsertAll(MapPut(m, cs[j].id, cs[j]), cs, j + 1)

\* to_update.extend(self.dive(&mut p))
Gather(to_update, r) == [to_update |-> to_update \o r.to_update, st |-> r.st]

\* PendulumFamily::dive_all, first loop: dive on every newly stopped cell,
\* in the order of the vector stopped
RECURSIVE DiveEach(_, _, _, _)
DiveEach(acc, order, i, cfg) ==
    IF i > Len(order) THEN acc
    ELSE DiveEach(Gather(acc.to_update, Dive(acc.st, order[i], cfg)), order, i + 1, cfg)

\* the children of one split cell, with their ids, go to next
Register(next, r) == [next |-> InsertAll(next, r.childs, 1), st |-> r.st]

\* PendulumFamily::dive_all, second loop: update_neighbors for every split
\* cell, the children collected in next
RECURSIVE RegisterEach(_, _, _)
RegisterEach(acc, to_update, i) ==
    IF i > Len(to_update) THEN acc
    ELSE RegisterEach(Register(acc.next,
                               UpdateNeighbors(acc.st, to_update[i][1], to_update[i][2])),
                      to_update, i + 1)

\* the second loop on what the first loop (d) left
RegisterAll(d) == RegisterEach([next |-> EmptyMap, st |-> d.st], d.to_update, 1)

\* PendulumFamily::dive_all
DiveAll(st, order, cfg) ==
    RegisterAll(DiveEach([to_update |-> <<>>, st |-> st], order, 1, cfg))

\* RollingAverage::new
AvgNew(size) == [hist |-> <<>>, sum |-> 0, size |-> size]

\* variant of AvgAdd: the sample that leaves the window stays in the sum
AvgAddKeepSum(avg, val) ==
    LET hist == Append(avg.hist, val)
        sum  == avg.sum + val
    IN IF Len(hist) > avg.size
       THEN [avg EXCEPT !.hist = Tail(hist), !.sum = sum]
       ELSE [avg EXCEPT !.hist = hist, !.sum = sum]

\* RollingAverage::get on u32: the division truncates
AvgGet(avg) == IF Len(avg.hist) = 0 THEN 0 ELSE avg.sum \div Len(avg.hist)

\* RollingAverage::add on u32 samples (steps as u32 keeps the value: steps
\* stays below max_step, which is below 2^31 in every Config)
AvgAdd(avg, val) ==
    LET hist == Append(avg.hist, val)
        sum  == avg.sum + val
    IN IF Len(hist) > avg.size
       THEN [avg EXCEPT !.hist = Tail(hist), !.sum = sum - Head(hist)]
       ELSE [avg EXCEPT !.hist = hist, !.sum = sum]

RECURSIVE AvgAddAll(_, _, _)
AvgAddAll(avg, vals, i) ==
    IF i > Len(vals) THEN avg ELSE AvgAddAll(AvgAdd(avg, vals[i]), vals, i + 1)

\* PendulumFamily::can_remove on the map done
CanRemove(dn, id) ==
    IF id \notin DOMAIN dn THEN FALSE
    ELSE \A i \in 1..Len(dn[id].childs) :
            LET c == dn[id].childs[i]
            IN c \in DOMAIN dn => dn[c].stopped

\* DoublePendulum::point_inside: the open square of half side width()
PointInside(c, x, y) ==
    LET w == CellWidth(c)
    IN x > c.px - w /\ x < c.px + w /\ y > c.py - w /\ y < c.py + w

\* the comparison of find_all, lines 420-424: (scale, stopped) tuples in
\* their lexicographic order, false before true
KeyLess(a, b) == a.scale < b.scale \/ (a.scale = b.scale /\ ~a.stopped /\ b.stopped)

\* the cells find_all collects: those of done, then those of ps, that
\* contain the point
Containing(dn, act, x, y) ==
    [done |-> {dn[id] : id \in {i \in DOMAIN dn : PointInside(dn[i], x, y)}},
     ps   |-> {act[id] : id \in {i \in DOMAIN act : PointInside(act[i], x, y)}}]

\* the least elements of a set of cells in the order of the sort
Least(S, all) == {c \in S : \A d \in all : ~KeyLess(d, c)}

\* res[0] after the stable sort: a least cell, one of done when done holds a
\* least cell (the cells of done are pushed first), one of ps otherwise; the
\* maps are iterated in any order.  [id |-> 0] stands for None
FirstSorted(cont) ==
    LET all == cont.done \cup cont.ps
    IN IF all = {} THEN {[id |-> 0]}
       ELSE IF Least(cont.done, all) # {} THEN Least(cont.done, all)
       ELSE Least(cont.ps, all)

\* PendulumFamily::find_all: the values it can return
FindAll(dn, act, x, y) == FirstSorted(Containing(dn, act, x, y))

\* exp(exp(iter / speed_a) / speed_b) as usize for speed_a = 550 and
\* speed_b = 20, the values of every Config of the repository: 1 up to
\* generation 1446, 2 from there to generation 1699
GrowthTerm(it) == IF it <= 1446 THEN 1 ELSE 2

\* variant of Classify: without the test of line 581, every integrated
\* cell is inserted into done
ClassifyUntested(fam, cfg, results, order) ==
    [iter    |-> fam.iter + 1,
     done    |-> [id \in (DOMAIN fam.done) \cup (DOMAIN results) |->
                    IF id \in Range(order)
                    THEN UpdateColor(results[id], cfg.color_step, cfg.color_mod)
                    ELSE IF id \in DOMAIN results THEN results[id] ELSE fam.done[id]],
     to_draw |-> fam.to_draw \o order,
     avg     |-> AvgAddAll(fam.avg, [i \in 1..Len(order) |-> results[order[i]].steps], 1),
     next    |-> [id \in (DOMAIN results) \ Range(order) |-> results[id]],
     stopped |-> order,
     integrated |-> DOMAIN results]

\* PendulumFamily::update, lines 576-595: the classification of the results.
\* results: the map ps of the integrated copies; order: the order in which
\* the loop of line 580 meets the cells that stopped
Classify(fam, cfg, results, order) ==
    [iter    |-> fam.iter + 1,
     done    |-> [id \in (DOMAIN fam.done) \cup Range(order) |->
                    IF id \in Range(order)
                    THEN UpdateColor(results[id], cfg.color_step, cfg.color_mod)
                    ELSE fam.done[id]],
     to_draw |-> fam.to_draw \o order,
     avg     |-> AvgAddAll(fam.avg, [i \in 1..Len(order) |-> results[order[i]].steps], 1),
     next    |-> [id \in (DOMAIN results) \ Range(order) |-> results[id]],
     stopped |-> order,
     integrated |-> DOMAIN results]

\* the condition of line 598
IsBoot(k) ==
    LET n0 == Cardinality(DOMAIN k.next)
        d0 == Cardinality(DOMAIN k.done)
    IN (n0 = 0 /\ d0 = 1) \/ (n0 = 1 /\ d0 = 0 /\ k.iter >= 1)

\* what the call did, for the record
GenOf(k, kids) ==
    [active0 |-> DOMAIN k.next, done0 |-> DOMAIN k.done, stopped |-> k.stopped,
     boot |-> IsBoot(k), bootkids |-> kids, integrated |-> k.integrated]

\* the state the dive pass starts from when no bootstrap takes place
NoBoot(fam, k) ==
    [next |-> k.next,
     st   |-> [ps |-> fam.ps, done |-> k.done, dive |-> fam.dive,
               counter |-> fam.counter, log |-> <<>>, ok |-> TRUE],
     kids |-> {}]

\* lines 609-613: the children (u.childs) of the root join next
BootChildren(k, rid, r, u) ==
    [next |-> InsertAll(MapPut(k.next, rid, r.self), u.childs, 1),
     st   |-> u.st,
     kids |-> {u.childs[j].id : j \in 1..Len(u.childs)}]

\* lines 606-610: the root p1, split (r), goes to done, and update_neighbors
\* runs on its children
BootSplit(fam, k, rid, p1, r) ==
    BootChildren(k, rid, r,
                 UpdateNeighbors([ps |-> fam.ps, done |-> MapPut(k.done, r.self.id, r.self),
                                  dive |-> fam.dive, counter |-> fam.counter,
                                  log |-> <<LogEntry(p1, r, "boot")>>, ok |-> r.ok],
                                 r.self.id, r.res))

\* variant of Bootstrap: without lines 603-606, the cell is split as it is
BootstrapUnforced(fam, cfg, k) ==
    LET rid == CHOOSE id \in DOMAIN k.next : TRUE
        p0  == k.next[rid]
    IN BootSplit(fam, k, rid, p0, Split(p0, cfg.width, cfg.min_pixel))

\* lines 599-606, next holding the only cell: it is stopped by force and
\* coloured, then split
Bootstrap(fam, cfg, k) ==
    LET rid == CHOOSE id \in DOMAIN k.next : TRUE
        p0  == k.next[rid]
        p1  == IF ~p0.stopped
               THEN UpdateColor([p0 EXCEPT !.stopped = TRUE], cfg.color_step, fam.update_steps)
               ELSE p0
    IN BootSplit(fam, k, rid, p1, Split(p1, cfg.width, cfg.min_pixel))

\* lines 630-647: the children of the dive pass (d.next) join next, which
\* becomes self.ps
Complete(k, b, d) ==
    [ps |-> [id \in (DOMAIN b.next) \cup (DOMAIN d.next) |->
                IF id \in DOMAIN d.next THEN d.next[id] ELSE b.next[id]],
     done |-> d.st.done, dive |-> d.st.dive,
     to_draw |-> k.to_draw, counter |-> d.st.counter, iter |-> k.iter,
     update_steps |-> BaseUpdateSteps + GrowthTerm(k.iter), avg |-> k.avg,
     panicked |-> ~d.st.ok, log |-> d.st.log,
     gen |-> GenOf(k, b.kids)]

\* lines 627-629: update_steps, then dive_all on the cells that stopped
AfterBoot(cfg, k, b) == Complete(k, b, DiveAll(b.st, k.stopped, cfg))

\* lines 598-647 on the classification k
AfterClassify(fam, cfg, k) ==
    IF IsBoot(k) /\ DOMAIN k.next = {}
    THEN \* line 599: the argument of unwrap_or is evaluated first, and
         \* next.values().next().unwrap() panics on the empty map
         [fam EXCEPT !.iter = k.iter, !.done = k.done, !.to_draw = k.to_draw, !.avg = k.avg]
         @@ [panicked |-> TRUE, log |-> <<>>, gen |-> GenOf(k, {})]
    ELSE AfterBoot(cfg, k, IF IsBoot(k) THEN Bootstrap(fam, cfg, k) ELSE NoBoot(fam, k))

\* the part of PendulumFamily::update that follows the collection of the
\* results (pendulum.rs:576-647).  fam: the fields of self; results: the map
\* ps of the integrated copies; order: the order in which the loop of line
\* 580 meets the cells that stopped.  The result has the new fields of self,
\* panicked (the call did not return) and gen, a record of what happened.
Finish(fam, cfg, results, order) ==
    AfterClassify(fam, cfg, Classify(fam, cfg, results, order))

\* -------------------------------------------------------------------- state
VARIABLES
    config,        \* Config and the domain width handed to PendulumFamily::new
    ps,            \* PendulumFamily.ps: the active set, id -> cell
    done,          \* PendulumFamily.done, id -> cell
    dive,          \* PendulumFamily.dive: ids marked as split
    to_draw,       \* PendulumFamily.to_draw: ids of the queued cells
    counter,       \* PendulumFamily.counter
    iter,          \* PendulumFamily.iter
    update_steps,  \* PendulumFamily.update_steps
    avg,           \* PendulumFamily.avg
    state,         \* MyGame.state
    panicked,      \* the process died in a panic
    split_log,     \* history: every executed split, in order
    gen,           \* history: what the last update call did
    mpc,           \* update, main thread: idle, send, join, drain, finish
    unsent,        \* update, main thread: cells the loop of line 560 has not met
    joined,        \* update, main thread: workers joined so far
    work,          \* the channel (sender, receiver)
    res,           \* the channel (res_sender, res_receiver)
    cap,           \* the capacity of both channels
    collected,     \* update, main thread: the local map ps of line 569
    wpc,           \* worker threads: recv, update, send, exit
    wcell,         \* worker threads: the cell held
    sched,         \* history of the running fan-out/fan-in
    drawn,         \* history: the ids PendulumFamily::draw took from to_draw, in order
    held,          \* history: the simulation when the game was last paused
    probe          \* a single call of a function: its arguments and its result

famvars == <<ps, done, dive, to_draw, counter, iter, update_steps, avg>>

schedvars == <<mpc, unsent, joined, work, res, cap, collected, wpc, wcell, sched>>

vars == <<config, ps, done, dive, to_draw, counter, iter, update_steps, avg,
          state, panicked, split_log, gen, mpc, unsent, joined, work, res, cap,
          collected, wpc, wcell, sched, drawn, held, probe>>

Workers == 1..NumWorkers

NoCell == [id |-> 0]

NoGen ==
    [active0 |-> {}, done0 |-> {}, stopped |-> <<>>, boot |-> FALSE,
     bootkids |-> {}, integrated |-> {}]

NoProbe == [fn |-> "none"]

NoSched == [recv |-> EmptyMap, upd |-> EmptyMap, sent |-> {}, flips |-> 0]

\* the simulation: the sets, the counters and, in the sets, every cell
Sim == [ps |-> ps, done |-> done, dive |-> dive, counter |-> counter, iter |-> iter]

\* the fields of self as a record
Fam ==
    [ps |-> ps, done |-> done, dive |-> dive, to_draw |-> to_draw,
     counter |-> counter, iter |-> iter, update_steps |-> update_steps, avg |-> avg]

\* MyGame::new: PendulumFamily::new, then add of the root cell
\* new2(dvec2(WIDTH / 2, WIDTH / 2), WIDTH, 1.0), which gets id 1
GameInit ==
    /\ config \in Configs
    /\ ps = [id \in {1} |->
               [New2(config.width \div 2, config.width \div 2, config.width, ScaleOne)
                  EXCEPT !.id = 1]]
    /\ done = EmptyMap
    /\ dive = {}
    /\ to_draw = <<>>
    /\ counter = 1
    /\ iter = 0
    /\ update_steps = InitUpdateSteps
    /\ avg = AvgNew(AvgSize)
    /\ state = "PAUSE"
    /\ panicked = FALSE
    /\ split_log = <<>>
    /\ gen = NoGen
    /\ mpc = "idle"
    /\ unsent = {}
    /\ joined = 0
    /\ work = <<>>
    /\ res = <<>>
    /\ cap = 0
    /\ collected = EmptyMap
    /\ wpc = [w \in Workers |-> "exit"]
    /\ wcell = [w \in Workers |-> NoCell]
    /\ sched = NoSched
    /\ drawn = <<>>
    /\ held = [sim |-> Sim, fresh |-> FALSE]

Init == GameInit /\ probe = NoProbe

\* the sets of at most k elements of D
RECURSIVE UpTo(_, _)
UpTo(D, k) ==
    IF k = 0 THEN {{}}
    ELSE LET S == UpTo(D, k - 1) IN S \cup UNION {{A \cup {x} : x \in D} : A \in S}

\* the new fields of self, as Finish returns them
Commit(f) ==
    /\ ps' = f.ps
    /\ done' = f.done
    /\ dive' = f.dive
    /\ to_draw' = f.to_draw
    /\ counter' = f.counter
    /\ iter' = f.iter
    /\ update_steps' = f.update_steps
    /\ avg' = f.avg
    /\ panicked' = f.panicked
    /\ split_log' = split_log \o f.log
    /\ gen' = f.gen

\* the cells whose crossing test can succeed in a batch: at most MaxFlips of
\* the active cells that still move
FlipSets == UpTo({id \in DOMAIN ps : ~ps[id].stopped}, MaxFlips)

\* PendulumFamily::update, lines 543-572: every active cell is integrated
\* once (SchedSpec takes this fan-out/fan-in step by step).  flip: for the
\* cells whose crossing test succeeds, the position in the batch at which it
\* does
Integrate(flip) ==
    [id \in DOMAIN ps |->
        DPUpdate(ps[id], update_steps, config.max_step,
                 IF id \in DOMAIN flip THEN flip[id] ELSE 0)]

\* the orders in which the loop of line 580 can meet the cells that stopped
Orders(results) == Perms({id \in DOMAIN results : results[id].stopped})

\* PendulumFamily::update
FamilyUpdate ==
    /\ ~panicked /\ mpc = "idle"
    /\ iter < MaxIter
    /\ \E F \in FlipSets : \E flip \in [F -> FlipSteps] :
          \E results \in {Integrate(flip)} :
             \E order \in Orders(results) :
                \E f \in {Finish(Fam, config, results, order)} : Commit(f)
    /\ UNCHANGED <<config, drawn, held, probe, state, schedvars>>

Next == FamilyUpdate

Spec == Init /\ [][Next]_vars

\* variant of UpdatePaused: the test of the state is missing and the
\* generation runs
UpdateWhilePaused ==
    /\ ~panicked /\ mpc = "idle"
    /\ state = "PAUSE"
    /\ iter < GameMaxIter
    /\ \E F \in FlipSets : \E flip \in [F -> FlipSteps] :
          \E results \in {Integrate(flip)} :
             \E order \in Orders(results) :
                \E f \in {Finish(Fam, config, results, order)} : Commit(f)
    /\ UNCHANGED <<config, drawn, held, probe, state, schedvars>>

\* --------------------------------------------------------------- the game
\* MyGame::update while the game is paused: nothing happens
UpdatePaused ==
    /\ ~panicked /\ mpc = "idle"
    /\ state = "PAUSE"
    /\ UNCHANGED vars

\* MyGame::update while the game runs: PendulumFamily::update, and the
\* pause when no cell is active any more
RunUpdate ==
    /\ ~panicked /\ mpc = "idle"
    /\ state = "RUN"
    /\ iter < GameMaxIter
    /\ \E F \in FlipSets : \E flip \in [F -> FlipSteps] :
          \E results \in {Integrate(flip)} :
             \E order \in Orders(results) :
                \E f \in {Finish(Fam, config, results, order)} :
                   /\ Commit(f)
                   /\ state' = IF ~f.panicked /\ Cardinality(DOMAIN f.ps) = 0
                               THEN "PAUSE" ELSE state
    /\ UNCHANGED <<config, drawn, probe, schedvars>>

GameUpdate == RunUpdate /\ UNCHANGED held

\* variant of DrainQueue: the front of the queue is read and left in place
DrainPeek(q, out, n) == [to_draw |-> q, drawn |-> out \o SubSeq(q, 1, Min(1, Len(q)))]

\* PendulumFamily::draw, lines 674-676: pop_front until the queue is empty,
\* every popped cell is drawn; q: the queue, out: the cells drawn so far, n:
\* the pops left
RECURSIVE DrainQueue(_, _, _)
DrainQueue(q, out, n) ==
    IF n = 0 \/ q = <<>> THEN [to_draw |-> q, drawn |-> out]
    ELSE DrainQueue(Tail(q), Append(out, Head(q)), n - 1)

\* MyGame::draw, PendulumFamily::draw: the queue to_draw is drained
Draw ==
    /\ ~panicked /\ mpc = "idle"
    /\ to_draw # <<>>
    /\ \E r \in {DrainQueue(to_draw, drawn, Len(to_draw))} :
          /\ to_draw' = r.to_draw
          /\ drawn' = r.drawn
    /\ UNCHANGED <<config, held, probe, ps, done, dive, counter, iter, update_steps, avg,
                   state, panicked, split_log, gen, schedvars>>

\* MyGame::key_down_event, KeyCode::Space
ToggleState ==
    /\ ~panicked /\ mpc = "idle"
    /\ state' = IF state = "RUN" THEN "PAUSE" ELSE "RUN"
    /\ UNCHANGED <<config, drawn, probe, famvars, panicked, split_log, gen, schedvars>>

KeySpace == ToggleState /\ UNCHANGED held

GameNext == GameUpdate \/ UpdatePaused \/ Draw \/ KeySpace

\* MyGame::key_down_event, KeyCode::Equals: update_steps is doubled (as long
\* as it is at most the initial batch, to keep it bounded)
KeyEquals ==
    /\ ~panicked /\ mpc = "idle"
    /\ update_steps <= InitUpdateSteps
    /\ update_steps' = 2 * update_steps
    /\ UNCHANGED <<config, drawn, held, probe, ps, done, dive, to_draw, counter, iter, avg,
                   state, panicked, split_log, gen, schedvars>>

\* the game with pauses and key presses, PauseMaxIter generations; held
\* records the simulation at the moment the game is paused (by Space, or by
\* MyGame::update when no cell is active), and fresh says that the game was
\* resumed and no generation has run since
PauseUpdate ==
    /\ iter < PauseMaxIter
    /\ RunUpdate
    /\ held' = IF state' = "PAUSE" THEN [sim |-> Sim', fresh |-> FALSE]
               ELSE [held EXCEPT !.fresh = FALSE]

PauseKeySpace ==
    /\ ToggleState
    /\ held' = IF state = "RUN" THEN [sim |-> Sim, fresh |-> FALSE]
               ELSE [held EXCEPT !.fresh = TRUE]

PauseNext == PauseUpdate \/ UpdatePaused \/ Draw \/ PauseKeySpace \/ KeyEquals

PauseSpec == Init /\ [][PauseNext]_vars

GameSpec == Init /\ [][GameNext]_vars

\* the guard of GameUpdate: the step is possible
GameUpdateEnabled == ~panicked /\ mpc = "idle" /\ state = "RUN" /\ iter < GameMaxIter

\* the game left to run: the event loop calls MyGame::update and
\* MyGame::draw once per frame, so an update that stays possible and a
\* drain that stays possible are carried out.  The condition on GameUpdate
\* is weak fairness written out: the step is possible exactly when
\* GameUpdateEnabled holds, and it is the only step that raises iter
GameFairSpec ==
    /\ GameSpec
    /\ WF_vars(Draw)
    /\ ([]<>(~GameUpdateEnabled) \/ []<><<iter' = iter + 1>>_vars)

\* ------------------------------------------------ the fan-out and the fan-in
\* PendulumFamily::update taken apart: the main thread (mpc) and the worker
\* threads (wpc) of lines 543-572, then lines 573-647 in one step.

NoWcell == [w \in Workers |-> NoCell]

\* history: one more receipt by a worker (recv) or one more call of
\* DoublePendulum::update (upd) for the cell id
Note(h, field, id) == [h EXCEPT ![field] = MapPut(@, id, IF id \in DOMAIN @ THEN @[id] + 1 ELSE 1)]

\* lines 543-558: the channels of capacity self.len(), the workers spawned
SStart ==
    /\ ~panicked /\ mpc = "idle"
    /\ iter < SchedMaxIter
    /\ mpc' = "send"
    /\ unsent' = DOMAIN ps
    /\ cap' = Cardinality(DOMAIN ps)
    /\ work' = <<>>
    /\ res' = <<>>
    /\ collected' = EmptyMap
    /\ joined' = 0
    /\ wpc' = [w \in Workers |-> "recv"]
    /\ wcell' = NoWcell
    /\ sched' = [NoSched EXCEPT !.sent = DOMAIN ps]
    /\ UNCHANGED <<config, drawn, held, probe, famvars, state, panicked, split_log, gen>>

\* lines 560-562: sender.send of a clone of the next cell of self.ps, which
\* blocks while the channel is full
SSend ==
    /\ mpc = "send"
    /\ \E id \in unsent :
          /\ Len(work) < cap
          /\ work' = Append(work, ps[id])
          /\ unsent' = unsent \ {id}
    /\ UNCHANGED <<config, drawn, held, probe, famvars, state, panicked, split_log, gen, mpc, joined,
                   res, cap, collected, wpc, wcell, sched>>

\* line 563: drop(sender)
SDropSender ==
    /\ mpc = "send"
    /\ unsent = {}
    /\ mpc' = "join"
    /\ UNCHANGED <<config, drawn, held, probe, famvars, state, panicked, split_log, gen, unsent, joined,
                   work, res, cap, collected, wpc, wcell, sched>>

\* variant of WExitNow: the sender of the main thread is never dropped, and
\* recv blocks on the empty channel
WExitNever(w) == FALSE

\* variant of WExitNow: the worker leaves as soon as the channel is empty
WExitWhenEmpty(w) == work = <<>>

\* line 552: receiver.recv() returns Err when the channel is empty and its
\* sender is dropped
WExitNow(w) == work = <<>> /\ mpc \notin {"send"}

\* variant of WRecv: the cell stays in the channel
WRecvShared(w) ==
    /\ wpc[w] = "recv"
    /\ work # <<>>
    /\ wcell' = [wcell EXCEPT ![w] = Head(work)]
    /\ work' = work
    /\ wpc' = [wpc EXCEPT ![w] = "update"]
    /\ sched' = Note(sched, "recv", Head(work).id)
    /\ UNCHANGED <<config, drawn, held, probe, famvars, state, panicked, split_log, gen, mpc, unsent,
                   joined, res, cap, collected>>

\* line 552: the worker takes the next cell of the channel
WRecv(w) ==
    /\ wpc[w] = "recv"
    /\ work # <<>>
    /\ wcell' = [wcell EXCEPT ![w] = Head(work)]
    /\ work' = Tail(work)
    /\ wpc' = [wpc EXCEPT ![w] = "update"]
    /\ sched' = Note(sched, "recv", Head(work).id)
    /\ UNCHANGED <<config, drawn, held, probe, famvars, state, panicked, split_log, gen, mpc, unsent,
                   joined, res, cap, collected>>

\* line 552: the loop of the worker ends, the thread terminates
WExit(w) ==
    /\ wpc[w] = "recv"
    /\ WExitNow(w)
    /\ wpc' = [wpc EXCEPT ![w] = "exit"]
    /\ UNCHANGED <<config, drawn, held, probe, famvars, state, panicked, split_log, gen, mpc, unsent,
                   joined, work, res, cap, collected, wcell, sched>>

\* line 553: p.update(upd_steps, max_steps) on the copy the worker holds
WUpdate(w) ==
    /\ wpc[w] = "update"
    /\ \E flip \in {0} \cup FlipSteps :
          /\ flip # 0 => (~wcell[w].stopped /\ sched.flips < MaxFlips)
          /\ wcell' = [wcell EXCEPT ![w] = DPUpdate(@, update_steps, config.max_step, flip)]
          /\ sched' = [Note(sched, "upd", wcell[w].id) EXCEPT
                          !.flips = IF flip # 0 THEN @ + 1 ELSE @]
    /\ wpc' = [wpc EXCEPT ![w] = "send"]
    /\ UNCHANGED <<config, drawn, held, probe, famvars, state, panicked, split_log, gen, mpc, unsent,
                   joined, work, res, cap, collected>>

\* line 554: res_sender.send(p), which blocks while the channel is full
WSend(w) ==
    /\ wpc[w] = "send"
    /\ Len(res) < cap
    /\ res' = Append(res, wcell[w])
    /\ wcell' = [wcell EXCEPT ![w] = NoCell]
    /\ wpc' = [wpc EXCEPT ![w] = "recv"]
    /\ UNCHANGED <<config, drawn, held, probe, famvars, state, panicked, split_log, gen, mpc, unsent,
                   joined, work, cap, collected, sched>>

\* lines 564-567: w.join() for the workers in their order, then
\* drop(res_sender)
SJoin ==
    /\ mpc = "join"
    /\ IF joined < NumWorkers
       THEN /\ wpc[joined + 1] = "exit"
            /\ joined' = joined + 1
            /\ mpc' = mpc
       ELSE /\ joined' = joined
            /\ mpc' = "drain"
    /\ UNCHANGED <<config, drawn, held, probe, famvars, state, panicked, split_log, gen, unsent,
                   work, res, cap, collected, wpc, wcell, sched>>

\* lines 570-572: res_receiver.recv() hands out the next result
SDrain ==
    /\ mpc = "drain"
    /\ res # <<>>
    /\ collected' = MapPut(collected, Head(res).id, Head(res))
    /\ res' = Tail(res)
    /\ UNCHANGED <<config, drawn, held, probe, famvars, state, panicked, split_log, gen, mpc, unsent,
                   joined, work, cap, wpc, wcell, sched>>

\* res_receiver.recv() returns Err: the channel is empty and every sender
\* (the one of the main thread, the clones of the workers) is dropped
DrainEnd == res = <<>> /\ \A w \in Workers : wpc[w] = "exit"

\* lines 570-647: the loop of line 570 ends, and the rest of update runs on
\* the main thread
SFinish ==
    /\ mpc = "drain"
    /\ DrainEnd
    /\ \E order \in Orders(collected) :
       \E f \in {Finish(Fam, config, collected, order)} :
          Commit(f)
    /\ mpc' = "idle"
    /\ UNCHANGED <<config, drawn, held, probe, state, unsent, joined, work, res, cap, collected,
                   wpc, wcell, sched>>

SchedNext ==
    \/ SStart \/ SSend \/ SDropSender \/ SJoin \/ SDrain \/ SFinish
    \/ \E w \in Workers : WRecv(w) \/ WExit(w) \/ WUpdate(w) \/ WSend(w)

\* the game of main.rs
SchedInit == Init /\ config = MainConfig

SchedSpec == SchedInit /\ [][SchedNext]_vars

\* PendulumFamily::update on a family of any size: PendulumFamily::new with
\* the Config of main.rs, followed by no add (the empty family dispatches
\* no cell), by the add of the root, or by further add calls with cells of
\* new2; the generation is taken step by step
FanCell(width, id) ==
    IF id = 1 THEN New2(width \div 2, width \div 2, width, ScaleOne)
    ELSE New2(((2 * id - 3) * width) \div 8, width \div 8, width, ScaleOne \div 4)

FanInit ==
    /\ config = MainConfig
    /\ \E n \in 0..MaxFan :
          /\ ps = [id \in 1..n |-> [FanCell(config.width, id) EXCEPT !.id = id]]
          /\ counter = n
    /\ done = EmptyMap
    /\ dive = {}
    /\ to_draw = <<>>
    /\ iter = 0
    /\ update_steps = InitUpdateSteps
    /\ avg = AvgNew(AvgSize)
    /\ state = "PAUSE"
    /\ panicked = FALSE
    /\ split_log = <<>>
    /\ gen = NoGen
    /\ mpc = "idle"
    /\ unsent = {}
    /\ joined = 0
    /\ work = <<>>
    /\ res = <<>>
    /\ cap = 0
    /\ collected = EmptyMap
    /\ wpc = [w \in Workers |-> "exit"]
    /\ wcell = [w \in Workers |-> NoCell]
    /\ sched = NoSched
    /\ drawn = <<>>
    /\ held = [sim |-> Sim, fresh |-> FALSE]
    /\ probe = NoProbe

\* the steps of the main thread between the spawn of the workers and the
\* end of the loop of line 570
MainStep == SSend \/ SDropSender \/ SJoin \/ SDrain

\* the steps of the worker thread w
WorkerStep(w) == WRecv(w) \/ WExit(w) \/ WUpdate(w) \/ WSend(w)

\* the main thread is not blocked: send has room in the channel, the
\* worker to join has terminated, recv has a result to hand out
MainEnabled ==
    \/ mpc = "send" /\ (unsent = {} \/ Len(work) < cap)
    \/ mpc = "join" /\ (joined < NumWorkers => wpc[joined + 1] = "exit")
    \/ mpc = "drain" /\ res # <<>>

\* the worker w is not blocked: recv has a cell to hand out or returns Err,
\* send has room in the channel
WorkerEnabled(w) ==
    \/ wpc[w] = "recv" /\ (work # <<>> \/ WExitNow(w))
    \/ wpc[w] = "update"
    \/ wpc[w] = "send" /\ Len(res) < cap

\* a step of MainStep, a step of WorkerStep(w)
MainDid ==
    /\ mpc # "idle" /\ mpc' # "idle"
    /\ <<mpc, unsent, joined, collected>>' # <<mpc, unsent, joined, collected>>

WorkerDid(w) == mpc' = mpc /\ wpc'[w] # wpc[w]

FanStart == iter < FanMaxIter /\ SStart

FanNext ==
    \/ FanStart \/ SSend \/ SDropSender \/ SJoin \/ SDrain \/ SFinish
    \/ \E w \in Workers : WRecv(w) \/ WExit(w) \/ WUpdate(w) \/ WSend(w)

\* the threads are scheduled by the operating system: a thread that is not
\* blocked takes its next step.  This is weak fairness of MainStep and of
\* every WorkerStep(w), written out: the steps are possible exactly when
\* MainEnabled and WorkerEnabled(w) hold
FanSpec ==
    /\ FanInit /\ [][FanNext]_vars
    /\ ([]<>(~MainEnabled) \/ []<><<MainDid>>_vars)
    /\ \A w \in Workers : ([]<>(~WorkerEnabled(w)) \/ []<><<WorkerDid(w)>>_vars)

\* ------------------------------------------------------- single functions
\* DoublePendulum::split on its own.  The cells are those new2 builds for the
\* domain of the Config (anchor on a grid of the domain, scale a power of
\* 1/2), stopped or not
ProbeScales == {ScaleOne, ScaleOne \div 2, ScaleOne \div 4, ScaleOne \div 8}

ProbeGrid(width) == {(k * width) \div 8 : k \in 0..8}

SplitInit ==
    /\ GameInit
    /\ \E px \in ProbeGrid(config.width), py \in ProbeGrid(config.width) :
       \E scale \in ProbeScales, stopped \in BOOLEAN :
          probe = [fn |-> "split",
                   cell |-> [New2(px, py, config.width, scale) EXCEPT !.stopped = stopped,
                                                                       !.id = 1],
                   called |-> FALSE]

\* one call of split with the domain width and the min_pixel of the Config
SplitCall ==
    /\ probe.fn = "split" /\ ~probe.called
    /\ \E r \in {Split(probe.cell, config.width, config.min_pixel)} :
          /\ probe' = [probe EXCEPT !.called = TRUE] @@ [out |-> r]
          /\ panicked' = ~r.ok
    /\ UNCHANGED <<config, drawn, held, famvars, state, split_log, gen, schedvars>>

SplitNext == SplitCall

SplitSpec == SplitInit /\ [][SplitNext]_vars

\* DoublePendulum::adjacent on its own.  Lengths are in 1/ProbeUnit of a
\* pixel, so that displacements below and above epsilon = 0.1 both exist.
\* a and b are cells new2 builds for the domain of the Config; m is b moved
\* by d along the axis, as p3 is p2 moved by 1.0 along y in test_adjacent

Along(c, axis) == IF axis = "x" THEN c.px ELSE c.py

Across(c, axis) == IF axis = "x" THEN c.py ELSE c.px

Moved(c, axis, d) ==
    IF axis = "x" THEN [c EXCEPT !.px = @ + d] ELSE [c EXCEPT !.py = @ + d]

ProbeCell(px, py, width, scale) ==
    New2(px * ProbeUnit, py * ProbeUnit, width * ProbeUnit, scale)

\* displacements: below epsilon, epsilon, above epsilon, one pixel, and the
\* two footprints side by side
Shifts(a, b) ==
    LET S == {1, 2, 3, ProbeUnit, 2 * (CellWidth(a) + CellWidth(b))}
    IN S \cup {-d : d \in S}

AdjacentInit ==
    /\ GameInit
    /\ \E a \in {ProbeCell(config.width \div 4, config.width \div 4, config.width, ScaleOne \div 2),
                  ProbeCell(config.width \div 8, config.width \div 8, config.width, ScaleOne \div 4)} :
       \E px \in ProbeGrid(config.width), py \in ProbeGrid(config.width) :
       \E scale \in {ScaleOne \div 2, ScaleOne \div 4} :
       \E b \in {ProbeCell(px, py, config.width, scale)} :
       \E axis \in {"x", "y"}, d \in Shifts(a, b) :
          probe = [fn |-> "adjacent", a |-> a, b |-> b, axis |-> axis, d |-> d,
                   m |-> Moved(b, axis, d), called |-> FALSE]

\* a.adjacent(b), b.adjacent(a), a.adjacent(m), m.adjacent(a)
AdjacentCall ==
    /\ probe.fn = "adjacent" /\ ~probe.called
    /\ probe' = [probe EXCEPT !.called = TRUE]
                 @@ [ab |-> AdjacentIn(probe.a, probe.b, ProbeUnit),
                     ba |-> AdjacentIn(probe.b, probe.a, ProbeUnit),
                     am |-> AdjacentIn(probe.a, probe.m, ProbeUnit),
                     ma |-> AdjacentIn(probe.m, probe.a, ProbeUnit)]
    /\ UNCHANGED <<config, drawn, held, famvars, state, panicked, split_log, gen, schedvars>>

AdjacentNext == AdjacentCall

AdjacentSpec == AdjacentInit /\ [][AdjacentNext]_vars

\* RollingAverage on its own: a window of some capacity, add calls with u32
\* samples (step counts: 0, small ones, and the largest the program adds,
\* max_step of the Config), get calls in between.  added: every sample
\* added, in order
Samples == {0, 10, 20, 30, MainConfig.max_step}

AvgInit ==
    /\ GameInit
    /\ \E size \in 0..MaxCapacity :
          probe = [fn |-> "avg", avg |-> AvgNew(size), added |-> <<>>,
                   got |-> [n |-> -1, val |-> 0]]

AvgAddCall ==
    /\ probe.fn = "avg" /\ Len(probe.added) < MaxAdds
    /\ \E val \in Samples :
          probe' = [probe EXCEPT !.avg = AvgAdd(@, val), !.added = Append(@, val)]
    /\ UNCHANGED <<config, drawn, held, famvars, state, panicked, split_log, gen, schedvars>>

\* get: the value returned, and the number of samples added before the call
AvgGetCall ==
    /\ probe.fn = "avg"
    /\ probe' = [probe EXCEPT !.got = [n |-> Len(probe.added), val |-> AvgGet(probe.avg)]]
    /\ UNCHANGED <<config, drawn, held, famvars, state, panicked, split_log, gen, schedvars>>

AvgNext == AvgAddCall \/ AvgGetCall

AvgSpec == AvgInit /\ [][AvgNext]_vars

\* PendulumFamily::find_all on the families the public interface builds:
\* PendulumFamily::new, add of the root (MyGame::new), further add calls
\* with cells of new2 (stopped is a public field), update calls, and mouse
\* clicks.  The probe keeps the maps find_all ran on and what it returned
FindCells(width) ==
    {[New2(a[1], a[2], width, a[3]) EXCEPT !.stopped = st] :
        a \in {<<width \div 4, width \div 4, ScaleOne \div 2>>,
                <<(3 * width) \div 4, width \div 4, ScaleOne \div 2>>,
                <<width \div 8, width \div 8, ScaleOne \div 4>>},
        st \in BOOLEAN}

ClickPoints(width) ==
    {0, width \div 16, (3 * width) \div 8, width \div 2, (3 * width) \div 4}

FindInit == Init

\* PendulumFamily::add
FindAdd ==
    /\ ~panicked /\ iter = 0 /\ counter < 1 + MaxAdded
    /\ \E c \in FindCells(config.width) :
          /\ counter' = counter + 1
          /\ ps' = MapPut(ps, counter + 1, [c EXCEPT !.id = counter + 1])
    /\ UNCHANGED <<config, drawn, held, probe, done, dive, to_draw, iter, update_steps, avg,
                   state, panicked, split_log, gen, schedvars>>

\* PendulumFamily::update
FindUpdate == iter < FindMaxIter /\ FamilyUpdate

\* MyGame::mouse_button_down_event: find_all at the position of the click
FindAllCall ==
    /\ ~panicked
    /\ \E x \in ClickPoints(config.width), y \in ClickPoints(config.width) :
       \E r \in FindAll(done, ps, x, y) :
          probe' = [fn |-> "find_all", x |-> x, y |-> y, done |-> done, ps |-> ps,
                    out |-> r]
    /\ UNCHANGED <<config, drawn, held, famvars, state, panicked, split_log, gen, schedvars>>

FindNext == FindAdd \/ FindUpdate \/ FindAllCall

FindSpec == FindInit /\ [][FindNext]_vars

\* DoublePendulum::step on its own, with the angle theta2 in view.  The
\* angles are the values next to the two boundaries (3.13, 3.15, -3.13,
\* -3.15 of the comment of lines 203-207) and 0.  A step moves theta2 by
\* dt2 * delta (lines 198, 201), so the sign of the new dt2 is that of the
\* move; or the arithmetic yields NaN, and then theta2 and dt2 are NaN from
\* there on
ThetaGrid == {-315, -313, 0, 313, 315}

Sign(n) == IF n > 0 THEN 1 ELSE IF n < 0 THEN -1 ELSE 0

\* what lines 180-201 can compute from the phase ph
PhysOut(ph) ==
    IF IsNaN(ph.theta2) THEN {[theta2 |-> NaN, dt2 |-> NaN]}
    ELSE {[theta2 |-> Num(t), dt2 |-> Num(Sign(t - ph.theta2.v))] : t \in ThetaGrid}
         \cup {[theta2 |-> NaN, dt2 |-> NaN]}

NoStep == [acted |-> FALSE, prev |-> Inf, theta2 |-> Inf, dt2 |-> Inf, stopped |-> FALSE]

\* a cell as new2 builds it (no step yet, prev infinite), or a cell one step
\* below the ceiling max_step that has moved before
StepInit ==
    /\ GameInit
    /\ \E t \in ThetaGrid, fresh \in BOOLEAN :
          probe = [fn |-> "step",
                   ph |-> [c |-> [ps[1] EXCEPT !.steps = IF fresh THEN 0 ELSE config.max_step - 1,
                                               !.prev = IF fresh THEN "inf" ELSE "finite"],
                           theta2 |-> Num(t), dt2 |-> Num(0),
                           prev |-> IF fresh THEN Inf ELSE Num(t)],
                   n |-> 0, last |-> NoStep]

\* one call of step; last: what the call saw and did (acted: it got past the
\* two early returns)
StepCall ==
    /\ probe.fn = "step" /\ probe.n < MaxProbeSteps
    /\ \E new \in PhysOut(probe.ph) :
       \E r \in {StepPhase(probe.ph, config.max_step, new)} :
          probe' = [probe EXCEPT
                      !.ph = r,
                      !.n = @ + 1,
                      !.last = [acted |-> (~probe.ph.c.stopped
                                           /\ probe.ph.c.steps < config.max_step),
                                prev |-> probe.ph.prev, theta2 |-> new.theta2,
                                dt2 |-> new.dt2, stopped |-> r.c.stopped]]
    /\ UNCHANGED <<config, drawn, held, famvars, state, panicked, split_log, gen, schedvars>>

StepNext == StepCall

StepSpec == StepInit /\ [][StepNext]_vars

\* PendulumFamily::dive on its own, on the calls update makes.  The domain
\* is small and the step ceiling low, so that cells expire within a few
\* generations: the root (width 16) outlives its first batch and is split
\* by the bootstrap, its children (width 8) are below the small-footprint
\* guard, and a cell expires in its second batch when the first was a long
\* one (KeyCode::Equals doubles update_steps)
ExpiryConfig ==
    [width |-> 32, min_pixel |-> 4, dive_diff |-> 82, max_step |-> 180,
     color_step |-> 1, color_mod |-> 6000]

\* the same with a domain twice as wide: the children (width 16) are not
\* below the guard
WideExpiryConfig == [ExpiryConfig EXCEPT !.width = 64]

DiveConfigs == {ExpiryConfig, WideExpiryConfig}

\* MyGame::new with one of these configurations
DiveInit ==
    /\ config \in DiveConfigs
    /\ ps = [id \in {1} |->
               [New2(config.width \div 2, config.width \div 2, config.width, ScaleOne)
                  EXCEPT !.id = 1]]
    /\ done = EmptyMap
    /\ dive = {}
    /\ to_draw = <<>>
    /\ counter = 1
    /\ iter = 0
    /\ update_steps = InitUpdateSteps
    /\ avg = AvgNew(AvgSize)
    /\ state = "PAUSE"
    /\ panicked = FALSE
    /\ split_log = <<>>
    /\ gen = NoGen
    /\ mpc = "idle"
    /\ unsent = {}
    /\ joined = 0
    /\ work = <<>>
    /\ res = <<>>
    /\ cap = 0
    /\ collected = EmptyMap
    /\ wpc = [w \in Workers |-> "exit"]
    /\ wcell = [w \in Workers |-> NoCell]
    /\ sched = NoSched
    /\ drawn = <<>>
    /\ held = [sim |-> Sim, fresh |-> FALSE]
    /\ probe = NoProbe

\* PendulumFamily::update
DiveGen == probe = NoProbe /\ iter < DiveMaxIter /\ FamilyUpdate

\* MyGame::key_down_event, KeyCode::Equals, pressed before the generation
\* whose calls of dive are looked at
DiveKey == probe = NoProbe /\ iter = DiveMaxIter /\ KeyEquals

\* what a call of dive met and did.  p: the examined cell as the call found
\* it; nbrs: the cells of done among its neighbours; marked: self.dive
\* before the call; split: the ids of the cells the call handed to split,
\* in order; kids: the number of children of each
DiveRecord(st, p, r) ==
    [fn |-> "dive", p |-> p,
     nbrs |-> [n \in Range(p.neighbors) \cap DOMAIN st.done |-> st.done[n]],
     marked |-> st.dive,
     split |-> [j \in 1..Len(r.to_update) |-> r.to_update[j][1]],
     kids |-> [j \in 1..Len(r.to_update) |-> Len(r.to_update[j][2])]]

\* the i-th call of dive of the next generation: update integrates and
\* classifies (no bootstrap takes place when cells stopped), dive_all has
\* called dive on the first i - 1 cells of stopped, and calls it on the
\* i-th
DiveCall ==
    /\ probe = NoProbe /\ ~panicked /\ mpc = "idle"
    /\ \E F \in UpTo({id \in DOMAIN ps : ~ps[id].stopped}, DiveFlips) :
       \E flip \in [F -> FlipSteps] :
       \E results \in {Integrate(flip)} :
       \E order \in Orders(results) :
       \E k \in {Classify(Fam, config, results, order)} :
          /\ ~IsBoot(k)
          /\ \E i \in 1..Len(order) :
             \E d \in {DiveEach([to_update |-> <<>>, st |-> NoBoot(Fam, k).st],
                                SubSeq(order, 1, i - 1), 1, config)} :
             \E r \in {Dive(d.st, order[i], config)} :
                probe' = DiveRecord(d.st, d.st.done[order[i]], r)
    /\ UNCHANGED <<config, drawn, held, famvars, state, panicked, split_log, gen, schedvars>>

DiveNext == DiveGen \/ DiveKey \/ DiveCall

DiveSpec == DiveInit /\ [][DiveNext]_vars

\* ------------------------------------------------------------- the sweep
\* PendulumFamily::update called again and again on the family MyGame::new
\* builds, until no cell is left.  The domain has one level of subdivision
\* (the root has width 16, its children, width 8, are below min_pixel) and
\* the step ceiling is
\* the first batch, so that the root outlives its first batch unless its
\* crossing test succeeds, and a child expires in its tenth batch
SweepConfig ==
    [width |-> 32, min_pixel |-> 16, dive_diff |-> 82, max_step |-> 100,
     color_step |-> 1, color_mod |-> 6000]

\* the same with a step ceiling below the first batch: the root expires in
\* the first call of update
ShortSweepConfig == [SweepConfig EXCEPT !.max_step = 50]

\* the same with the root (width 16) below min_pixel: it has no children
CoarseSweepConfig == [SweepConfig EXCEPT !.min_pixel = 32]

SweepConfigs == {SweepConfig, ShortSweepConfig, CoarseSweepConfig}

\* MyGame::new with one of these configurations
SweepInit ==
    /\ config \in SweepConfigs
    /\ ps = [id \in {1} |->
               [New2(config.width \div 2, config.width \div 2, config.width, ScaleOne)
                  EXCEPT !.id = 1]]
    /\ done = EmptyMap
    /\ dive = {}
    /\ to_draw = <<>>
    /\ counter = 1
    /\ iter = 0
    /\ update_steps = InitUpdateSteps
    /\ avg = AvgNew(AvgSize)
    /\ state = "PAUSE"
    /\ panicked = FALSE
    /\ split_log = <<>>
    /\ gen = NoGen
    /\ mpc = "idle"
    /\ unsent = {}
    /\ joined = 0
    /\ work = <<>>
    /\ res = <<>>
    /\ cap = 0
    /\ collected = EmptyMap
    /\ wpc = [w \in Workers |-> "exit"]
    /\ wcell = [w \in Workers |-> NoCell]
    /\ sched = NoSched
    /\ drawn = <<>>
    /\ held = [sim |-> Sim, fresh |-> FALSE]
    /\ probe = NoProbe

\* the guard of SweepUpdate: update is called and returns unless the
\* process died in a panic
SweepEnabled == ~panicked /\ mpc = "idle" /\ iter < SweepMaxIter

\* PendulumFamily::update, with at most SweepFlips of the active cells
\* stopping at a crossing in one call
SweepUpdate ==
    /\ SweepEnabled
    /\ \E F \in UpTo({id \in DOMAIN ps : ~ps[id].stopped}, SweepFlips) :
       \E flip \in [F -> FlipSteps] :
       \E results \in {Integrate(flip)} :
       \E order \in Orders(results) :
       \E f \in {Finish(Fam, config, results, order)} : Commit(f)
    /\ UNCHANGED <<config, drawn, held, probe, state, schedvars>>

SweepNext == SweepUpdate

\* a call of update as far as iter goes (line 576): SweepUpdate is possible
\* exactly when SweepEnabled holds, and it is the only step that raises iter
SweepCall == SweepEnabled /\ iter' = iter + 1

\* update is called again and again: a call that stays possible is made
SweepSpec ==
    /\ SweepInit /\ [][SweepNext]_vars
    /\ WF_iter(SweepCall)

\* ------------------------------------------------------------- properties
Ids == (DOMAIN ps) \cup (DOMAIN done)

\* the cell registered under id
CellAt(id) == IF id \in DOMAIN ps THEN ps[id] ELSE done[id]

\* C1: once the stopped flag of a cell is true it is never false again: every
\* update call, the re-dispatch of a stopped cell to a worker and the root
\* bootstrap included, leaves every stopped cell stopped in the active set
\* and in the done set.
C1_StoppedMonotonic ==
    [][\A id \in Ids :
          (\/ (id \in DOMAIN ps /\ ps[id].stopped)
           \/ (id \in DOMAIN done /\ done[id].stopped))
          => /\ id \in DOMAIN ps' => ps'[id].stopped
             /\ id \in DOMAIN done' => done'[id].stopped]_vars

\* the root, stopped by the bootstrap, went through a worker again
C1_Witness ==
    /\ ~panicked /\ iter >= 2
    /\ 1 \in gen.integrated /\ 1 \in Range(gen.stopped)
    /\ 1 \in DOMAIN done /\ done[1].stopped

\* the copies of the cell id that the channels, the workers and the local
\* map of the main thread hold
Copies(id) ==
      Cardinality({i \in DOMAIN work : work[i].id = id})
    + Cardinality({w \in Workers : wcell[w].id = id})
    + Cardinality({i \in DOMAIN res : res[i].id = id})
    + (IF id \in DOMAIN collected THEN 1 ELSE 0)

Count(h, id) == IF id \in DOMAIN h THEN h[id] ELSE 0

\* C2: every generation integrates every active cell exactly once: a
\* dispatched cell has one copy, held by one channel, one worker or the main
\* thread; it reaches a worker at most once and DoublePendulum::update runs
\* on it at most once, and has run once on every result; when the
\* generation is over the results are the active cells, each received once
\* and updated once.
C2_IntegratedOnce ==
    /\ \A id \in sched.sent :
          /\ Copies(id) = IF id \in unsent THEN 0 ELSE 1
          /\ Count(sched.recv, id) <= 1
          /\ Count(sched.upd, id) <= 1
          /\ (\/ id \in DOMAIN collected
              \/ \E i \in DOMAIN res : res[i].id = id
              \/ \E w \in Workers : wcell[w].id = id /\ wpc[w] = "send")
             => Count(sched.upd, id) = 1
          /\ (\E i \in DOMAIN work : work[i].id = id) => Count(sched.recv, id) = 0
    /\ (DOMAIN collected) \cup (DOMAIN sched.recv) \cup (DOMAIN sched.upd) \subseteq sched.sent
    /\ (mpc = "idle" /\ iter > 0)
       => /\ gen.integrated = sched.sent
          /\ \A id \in sched.sent : Count(sched.recv, id) = 1 /\ Count(sched.upd, id) = 1

\* the second generation is over: the root and its four children were
\* integrated
C2_Witness ==
    /\ ~panicked /\ mpc = "idle" /\ iter = 2
    /\ Cardinality(sched.sent) = 5
    /\ gen.integrated = sched.sent

\* C3: classification, subdivision and every change of the done set start
\* only when every worker has terminated and was joined and the results of
\* all dispatched cells are received: a step that changes iter, ps, done,
\* dive or the record of splits starts from such a state.
C3_ClassifyAfterFanIn ==
    [][(iter' # iter \/ ps' # ps \/ done' # done \/ dive' # dive \/ split_log' # split_log)
       => /\ \A w \in Workers : wpc[w] = "exit"
          /\ joined = NumWorkers
          /\ work = <<>> /\ res = <<>>
          /\ DOMAIN collected = sched.sent
          /\ \A id \in sched.sent : Count(sched.upd, id) = 1]_vars

\* a generation of five cells was classified, and its dive pass split cells
C3_Witness ==
    /\ ~panicked /\ mpc = "idle" /\ iter = 2
    /\ Cardinality(DOMAIN collected) = 5
    /\ dive # {}

\* C4: when after the classification no cell is active and exactly one cell
\* is done, the generation completes and the new active set is the children
\* of the forced subdivision of the root, and not empty.
C4_RootBootstrap ==
    (gen.active0 = {} /\ Cardinality(gen.done0) = 1)
    => /\ ~panicked
       /\ DOMAIN ps # {}
       /\ DOMAIN ps = gen.bootkids

\* C5: at the end of every generation the neighbour graph is symmetric over
\* the cells of the active set and of the done set.
C5_NeighborsSymmetric ==
    \A a, b \in Ids :
       (b \in Range(CellAt(a).neighbors)) <=> (a \in Range(CellAt(b).neighbors))

\* C6: split is executed at most once for any cell id, the root bootstrap and
\* every dive pass included: no two entries of the record of splits have
\* the same id.
C6_SplitOnce ==
    \A i, j \in DOMAIN split_log : split_log[i].id = split_log[j].id => i = j

\* cells were split by the bootstrap, as a neighbour and as the examined
\* cell of a dive, and a marked cell was examined again
C6_Witness ==
    /\ ~panicked
    /\ \E i, j, k \in DOMAIN split_log :
          /\ split_log[i].site = "boot"
          /\ split_log[j].site = "dive_n"
          /\ split_log[k].site = "dive_p"
    /\ \E id \in Range(gen.stopped) :
          /\ id \in dive
          /\ \E i \in DOMAIN split_log : split_log[i].id = id /\ split_log[i].site = "dive_n"

\* the anchors of the four quadrants of the cell c
QuadrantAnchors(c) ==
    LET d == CellWidth(c) \div 2
    IN {<<c.px + sx * d, c.py + sy * d>> : sx \in {-1, 1}, sy \in {-1, 1}}

\* C7: split on a cell of width W produces at most 4 children, each of
\* width W/2 and half the scale, on distinct quadrant anchors that lie
\* inside [0, width] on both axes; a quadrant strictly inside the domain is
\* produced, one that is not inside is omitted.
C7_SplitChildren ==
    (probe.fn = "split" /\ probe.called /\ probe.out.ok)
    => LET c  == probe.cell
           r  == probe.out.res
           as == {<<r[i].px, r[i].py>> : i \in DOMAIN r}
       IN /\ Len(r) <= 4
          /\ Cardinality(as) = Len(r)
          /\ as \subseteq QuadrantAnchors(c)
          /\ \A i \in DOMAIN r :
                /\ 2 * CellWidth(r[i]) = CellWidth(c)
                /\ 2 * r[i].scale = c.scale
                /\ 0 <= r[i].px /\ r[i].px <= config.width
                /\ 0 <= r[i].py /\ r[i].py <= config.width
          /\ CellWidth(c) >= config.min_pixel
             => \A q \in QuadrantAnchors(c) :
                   (0 < q[1] /\ q[1] < config.width /\ 0 < q[2] /\ q[2] < config.width)
                   => q \in as

\* a split at the border of the domain: two quadrants produced, two omitted
C7_Witness ==
    /\ probe.fn = "split" /\ probe.called /\ probe.out.ok
    /\ Len(probe.out.res) = 2

\* C8, as amended: a cell whose width is below min_pixel is never
\* subdivided: split on it produces no children and leaves the cell as it
\* is.
C8_BelowFloorNoSplit ==
    (probe.fn = "split" /\ probe.called /\ CellWidth(probe.cell) < config.min_pixel)
    => /\ probe.out.res = <<>>
       /\ probe.out.self = probe.cell

\* split was called on a stopped cell below min_pixel
C8_Witness ==
    /\ probe.fn = "split" /\ probe.called /\ probe.out.ok
    /\ CellWidth(probe.cell) < config.min_pixel

\* C8, as stated: a cell whose width is at or below min_pixel is never
\* subdivided.
C8_AtOrBelowFloorNoSplit ==
    (probe.fn = "split" /\ probe.called /\ CellWidth(probe.cell) <= config.min_pixel)
    => probe.out.res = <<>>

\* C9: can_remove(id) is true if and only if id is in the done set and every
\* id of its child list is in the done set with stopped true.
C9_CanRemove ==
    \A id \in 0..counter :
       CanRemove(done, id)
       <=> /\ id \in DOMAIN done
           /\ \A i \in DOMAIN done[id].childs :
                 /\ done[id].childs[i] \in DOMAIN done
                 /\ done[done[id].childs[i]].stopped

\* what two runs are compared on: for every id the anchor, the step count,
\* the flags and the colour
CellsById(f) ==
    [id \in (DOMAIN f.ps) \cup (DOMAIN f.done) |->
        LET c == IF id \in DOMAIN f.ps THEN f.ps[id] ELSE f.done[id]
        IN <<c.px, c.py, c.steps, c.stopped, c.expired, c.color>>]

\* the results of the update calls that can follow the current state: one
\* set for every integration, its elements the results for the different
\* iteration orders
Outcomes ==
    {{Finish(Fam, config, results, order) : order \in Orders(results)} :
        results \in {Integrate(flip) : flip \in UNION {[F -> FlipSteps] : F \in FlipSets}}}

\* C10, as stated: the cells two runs end with are the same id by id,
\* whatever the order in which the cells that stopped are met.
C10_SameCellsById ==
    (~panicked /\ iter < MaxIter)
    => \A O \in Outcomes : Cardinality({CellsById(f) : f \in O}) = 1

\* what two runs are compared on when the numbering of the cells is left
\* aside: the cells, each with its anchor and scale, its step count, flags
\* and colour, the maps that hold it, its mark in dive, and the anchors of
\* its parent and of its neighbours
CellsByAnchor(f) ==
    LET ids     == (DOMAIN f.ps) \cup (DOMAIN f.done)
        at(id)  == IF id \in DOMAIN f.ps THEN f.ps[id] ELSE f.done[id]
        pos(id) == IF id \in ids THEN <<at(id).px, at(id).py>> ELSE <<>>
    IN [cells |-> {[p |-> pos(id), scale |-> at(id).scale, steps |-> at(id).steps,
                    stopped |-> at(id).stopped, expired |-> at(id).expired,
                    color |-> at(id).color,
                    active |-> id \in DOMAIN f.ps, done |-> id \in DOMAIN f.done,
                    dive |-> id \in f.dive,
                    parent |-> pos(at(id).parent_id),
                    neighbors |-> {pos(n) : n \in Range(at(id).neighbors)}] : id \in ids},
        n |-> Cardinality(ids), counter |-> f.counter, iter |-> f.iter,
        update_steps |-> f.update_steps, panicked |-> f.panicked]

\* C10, as amended: the cells two runs end with are the same up to the
\* numbering of the cells: the same anchors, and for every anchor the same
\* step count, flags and colour (and the same parent and neighbours),
\* whatever the order in which the cells that stopped are met.
C10_SameCellsByAnchor ==
    (~panicked /\ iter < MaxIter)
    => \A O \in Outcomes : Cardinality({CellsByAnchor(f) : f \in O}) = 1

\* two cells stopped in one generation and were met in either order, and the
\* dive pass split cells
C10_Witness ==
    /\ ~panicked /\ iter >= 2
    /\ Len(gen.stopped) >= 2
    /\ \E i, j \in DOMAIN gen.stopped :
          /\ i < j /\ gen.stopped[i] > gen.stopped[j]
          /\ gen.stopped[i] \in dive /\ gen.stopped[j] \in dive

\* the probe of adjacent has run on two cells of equal width whose centres
\* differ along the axis by the sum of the widths
ProbeTouching ==
    /\ probe.fn = "adjacent" /\ probe.called
    /\ CellWidth(probe.a) = CellWidth(probe.b)
    /\ Abs(Along(probe.a, probe.axis) - Along(probe.b, probe.axis))
          = CellWidth(probe.a) + CellWidth(probe.b)

\* C11, as stated: adjacent is symmetric; two cells of equal width whose
\* centres differ along one axis by exactly the sum of their widths are
\* adjacent both ways, and moving one of them by more than epsilon along that
\* axis makes them non-adjacent both ways.
C11_AdjacentAsStated ==
    /\ (probe.fn = "adjacent" /\ probe.called)
          => (probe.ab = probe.ba /\ probe.am = probe.ma)
    /\ ProbeTouching
          => /\ probe.ab /\ probe.ba
             /\ 10 * Abs(probe.d) > ProbeUnit => (~probe.am /\ ~probe.ma)

\* C11, as amended: adjacent is symmetric; two cells of equal width whose
\* centres differ along one axis by exactly the sum of their widths, and
\* along the other axis by no more than that sum, are adjacent both ways;
\* moving one of them along the first axis by more than epsilon and by less
\* than twice that sum less epsilon makes them non-adjacent both ways,
\* unless the centres differ along the other axis by that sum to within
\* epsilon and the move brings the centres closer.
C11_Adjacent ==
    LET w2     == CellWidth(probe.a) + CellWidth(probe.b)
        across == Abs(Across(probe.a, probe.axis) - Across(probe.b, probe.axis))
        after  == Abs(Along(probe.a, probe.axis) - Along(probe.m, probe.axis))
    IN /\ (probe.fn = "adjacent" /\ probe.called)
             => (probe.ab = probe.ba /\ probe.am = probe.ma)
       /\ (ProbeTouching /\ across <= w2)
             => /\ probe.ab /\ probe.ba
                /\ ( /\ 10 * Abs(probe.d) > ProbeUnit
                     /\ 10 * (2 * w2 - Abs(probe.d)) > ProbeUnit
                     /\ (10 * Abs(across - w2) >= ProbeUnit \/ after > w2) )
                   => (~probe.am /\ ~probe.ma)

\* the case of test_adjacent: p1 and p2 one above the other, p3 is p2 moved
\* by one pixel, and adjacent has answered for both pairs
C11_Witness ==
    /\ ProbeTouching
    /\ probe.axis = "y" /\ probe.d = ProbeUnit
    /\ probe.a.px = probe.b.px /\ probe.a.scale = ScaleOne \div 2
    /\ probe.ab /\ probe.ba /\ ~probe.am /\ ~probe.ma

\* C12: no cell of the active set or of the done set has the same id twice
\* in its neighbour list, after any sequence of generations and subdivisions.
C12_NoDuplicateNeighbor ==
    \A id \in Ids :
       \A i, j \in DOMAIN CellAt(id).neighbors :
          CellAt(id).neighbors[i] = CellAt(id).neighbors[j] => i = j

\* a child holds neighbours it took over from its parent and, after them,
\* the ids of the children of its parent; and a cell that is not one of
\* these children was given the id of the child
C12_Witness ==
    \E id \in Ids :
       /\ Len(CellAt(id).neighbors) > 4
       /\ \E n \in Range(CellAt(id).neighbors) :
             /\ n \in Ids /\ n # id
             /\ CellAt(n).parent_id # CellAt(id).parent_id
             /\ id \in Range(CellAt(n).neighbors)

\* every push_back on to_draw so far, in order: the cells draw has taken and
\* the cells still queued
Enqueued == drawn \o to_draw

\* how many times id occurs in the sequence q
Occurrences(q, id) == Cardinality({i \in DOMAIN q : q[i] = id})

\* C13: every cell that becomes stopped is put in the queue to_draw exactly
\* once over the whole run: no cell is pushed twice, a cell the loop of line
\* 580 finds stopped is pushed in that generation, and with the game left
\* running every stopped cell is pushed (again and again all the stopped
\* cells have been pushed, and a stopped cell stays stopped); and draw
\* removes every queued cell exactly once: a drain hands over the whole queue
\* in its order and leaves it empty, no cell is handed over twice, and the
\* queue is empty again and again.
C13_QueuedOnceDrawnOnce ==
    /\ [](\A id \in Ids : Occurrences(Enqueued, id) <= 1)
    /\ [](\A id \in (DOMAIN done) \ (DOMAIN ps) : Occurrences(Enqueued, id) = 1)
    /\ [](\A id \in Range(Enqueued) : id \in DOMAIN done /\ done[id].stopped)
    /\ []<>(\/ state = "PAUSE" \/ panicked
            \/ \A id \in Ids : CellAt(id).stopped => Occurrences(Enqueued, id) = 1)
    /\ [][drawn' # drawn => (to_draw' = <<>> /\ drawn' = drawn \o to_draw)]_vars
    /\ []<>(to_draw = <<>> \/ panicked)

\* cells stopped in two generations, the root stopped by the bootstrap among
\* them, a drain took the cells of the first generation and the cells of the
\* second are queued
C13_Witness ==
    /\ ~panicked /\ iter >= 2
    /\ drawn # <<>> /\ to_draw # <<>>
    /\ 1 \in Range(Enqueued)
    /\ \A id \in Ids : CellAt(id).stopped => Occurrences(Enqueued, id) = 1

\* the last k elements of the sequence q
LastOf(q, k) == SubSeq(q, Len(q) - k + 1, Len(q))

RECURSIVE SumOf(_)
SumOf(q) == IF q = <<>> THEN 0 ELSE Head(q) + SumOf(Tail(q))

\* the mean a window holding the samples q stands for
MeanOf(q) == IF q = <<>> THEN 0 ELSE SumOf(q) \div Len(q)

\* C14: after any sequence of n add calls on a window of capacity c the
\* window holds the last min(n, c) samples in their order, the running sum
\* is the sum of exactly those samples, and get returns their mean, the
\* integer quotient, or 0 when the window holds no sample.
C14_RollingAverage ==
    probe.fn = "avg"
    => LET last == LastOf(probe.added, Min(Len(probe.added), probe.avg.size))
       IN /\ probe.avg.hist = last
          /\ probe.avg.sum = SumOf(last)
          /\ AvgGet(probe.avg) = MeanOf(last)
          /\ probe.got.n >= 0
               => probe.got.val
                    = MeanOf(LastOf(SubSeq(probe.added, 1, probe.got.n),
                                    Min(probe.got.n, probe.avg.size)))

\* capacity 2, the samples 10, 20, 30 added, and get has returned 25
C14_Witness ==
    /\ probe.fn = "avg" /\ probe.avg.size = 2
    /\ probe.added = <<10, 20, 30>>
    /\ probe.got = [n |-> 3, val |-> 25]

\* the cells of the maps the probe of find_all ran on that contain the point
ProbeContaining ==
    LET cont == Containing(probe.done, probe.ps, probe.x, probe.y)
    IN cont.done \cup cont.ps

\* C15: find_all returns None if and only if no cell of the active set or
\* of the done set contains the point; otherwise it returns a containing
\* cell whose scale is minimal among the containing cells, and when a
\* stopped cell is among the containing cells of that scale, a stopped one.
C15_FindAll ==
    probe.fn = "find_all"
    => /\ probe.out.id = 0 <=> ProbeContaining = {}
       /\ probe.out.id # 0
            => /\ probe.out \in ProbeContaining
               /\ \A c \in ProbeContaining : probe.out.scale <= c.scale
               /\ (\E c \in ProbeContaining : c.scale = probe.out.scale /\ c.stopped)
                    => probe.out.stopped

\* C16: when a value of the phase of a cell has become NaN during the
\* integration, the generation has aborted: the process is not left running
\* with the cell integrated further, classified or coloured.
C16_NaNAborts ==
    (probe.fn = "step" /\ probe.n > 0 /\ IsNaN(probe.ph.theta2)) => panicked

\* theta2 went from prev to theta2 across the boundary b, upwards
Upward(prev, theta2, b) == FLt(prev, Num(b)) /\ FGt(theta2, Num(b))

\* theta2 went from prev to theta2 across the boundary b, downwards
Downward(prev, theta2, b) == FGt(prev, Num(b)) /\ FLt(theta2, Num(b))

\* C20: for a cell that is not stopped and whose prev is finite, a step
\* sets stopped exactly when theta2 crossed +pi or -pi between prev and its
\* new value in the direction of the sign of dt2: upwards with dt2 > 0,
\* downwards with dt2 < 0 (the four cases of the comment of lines 203-207).
C20_StopOnCrossing ==
    (probe.fn = "step" /\ probe.last.acted /\ IsFinite(probe.last.prev))
    => (probe.last.stopped
          <=> \/ /\ FGt(probe.last.dt2, Num(0))
                 /\ \/ Upward(probe.last.prev, probe.last.theta2, PiHundredths)
                    \/ Upward(probe.last.prev, probe.last.theta2, -PiHundredths)
              \/ /\ FLt(probe.last.dt2, Num(0))
                 /\ \/ Downward(probe.last.prev, probe.last.theta2, PiHundredths)
                    \/ Downward(probe.last.prev, probe.last.theta2, -PiHundredths))

\* the cell registered under id, as what it is: its anchor and its scale
Identity(id) == <<CellAt(id).px, CellAt(id).py, CellAt(id).scale>>

\* C17: ids are unique and strictly increasing in the order of creation:
\* a cell is registered under the id it carries, the ids in use are at most
\* the counter, the active set and the done set hold the same cell under an
\* id they share, and the parent of a cell has a smaller id; a call never
\* lowers the counter, gives every cell it registers an id above the counter
\* it started with, and leaves every id with the cell it had.
C17_IdsUniqueIncreasing ==
    /\ [](\A id \in Ids :
            /\ CellAt(id).id = id /\ id >= 1 /\ id <= counter
            /\ CellAt(id).parent_id < id
            /\ (id \in DOMAIN ps /\ id \in DOMAIN done)
                 => (ps[id].id = id /\ done[id].id = id
                     /\ <<ps[id].px, ps[id].py, ps[id].scale>>
                          = <<done[id].px, done[id].py, done[id].scale>>))
    /\ [][/\ counter' >= counter
          /\ \A id \in Ids' : IF id \in Ids THEN Identity(id)' = Identity(id)
                                ELSE id > counter]_vars

\* three levels of cells: a cell whose parent has a parent, all registered
C17_Witness ==
    /\ ~panicked
    /\ \E id \in Ids :
          /\ CellAt(id).parent_id \in Ids
          /\ CellAt(CellAt(id).parent_id).parent_id \in Ids
          /\ id > CellAt(id).parent_id

\* C18: while the game is paused no event changes the simulation: the
\* active set, the done set, the dive set, the id counter, the iteration
\* counter and every cell stay as they are, so that during a pause the
\* simulation is the one the pause began with; and the first generation
\* after the game is resumed with Space runs on exactly that population:
\* it integrates the cells that were active when the pause began, as they
\* were.
C18_PauseFreezes ==
    /\ [][state = "PAUSE" => Sim' = Sim]_vars
    /\ [](state = "PAUSE" => Sim = held.sim)
    /\ [][(held.fresh /\ iter' = iter + 1)
            => (Sim = held.sim /\ gen'.integrated = DOMAIN held.sim.ps)]_vars

\* the game ran, was paused after a generation, update events came during
\* the pause, the game was resumed and a further generation has run
C18_Witness ==
    /\ ~panicked /\ state = "RUN" /\ iter = 2
    /\ held.sim.iter = 1 /\ ~held.fresh
    /\ gen.integrated = DOMAIN held.sim.ps
    /\ Cardinality(DOMAIN held.sim.ps) > 1

\* C19: at the end of every generation the active set is exactly the
\* integrated cells that did not stop and the children spawned in that
\* generation (cells no step has run on, whose parent is a cell of done):
\* no stopped cell and no cell of the done set is in the active set.
C19_ActiveSet ==
    (iter >= 1 /\ ~panicked)
    => /\ gen.active0 \subseteq DOMAIN ps
       /\ \A id \in (DOMAIN ps) \ gen.active0 :
             ps[id].steps = 0 /\ ps[id].parent_id \in DOMAIN done
       /\ \A id \in DOMAIN ps : ~ps[id].stopped /\ id \notin DOMAIN done

\* the ids of the cells split was executed on
SplitIds == {split_log[i].id : i \in DOMAIN split_log}

\* the cells spawned from the cell id: those registered with it as parent
ChildrenOf(id) == {c \in Ids : CellAt(c).parent_id = id}

\* C21: after a cell is subdivided, its child list holds exactly the ids of
\* the children spawned from it, each once, under the ids the children are
\* registered with, and each of these children has the cell as parent_id.
C21_ChildList ==
    \A id \in SplitIds :
       /\ Range(CellAt(id).childs) = ChildrenOf(id)
       /\ Len(CellAt(id).childs) = Cardinality(ChildrenOf(id))

\* the cells a generation has spawned: registered after the step, unknown
\* before it
Spawned == (DOMAIN ps') \ Ids

\* C22: after update_neighbors for a subdivided parent, the neighbour list
\* of each new child consists of exactly its siblings and those former
\* neighbours of the parent that are adjacent to the child: it holds no
\* other id, in particular not the id of the child, and every listed cell
\* is registered and satisfies adjacent with the child.
C22_ChildNeighbors ==
    [][\A id \in Spawned :
          LET c == ps'[id]
              siblings == {s \in Spawned : ps'[s].parent_id = c.parent_id /\ s # id}
              former == Range(CellAt(c.parent_id).neighbors)
          IN /\ Range(c.neighbors)
                = siblings \cup {n \in former : n \in Ids' /\ Adjacent(c, CellAt(n)')}
             /\ id \notin Range(c.neighbors)
             /\ \A n \in Range(c.neighbors) : n \in Ids' /\ Adjacent(c, CellAt(n)')]_vars

\* the examined cell of the call of dive was handed to split
PSplit == probe.p.id \in Range(probe.split)

\* the neighbours the call of dive handed to split
NSplit == Range(probe.split) \ {probe.p.id}

\* an expired cell with a small footprint
SmallExpired(c) == c.expired /\ CellWidth(c) < SmallFootprint

\* the steps of a and b differ by more than dive_diff, or one of the two is
\* expired
Diverged(a, b, dive_diff) ==
    \/ Max(a.steps, b.steps) # 0
       /\ 100 * Min(a.steps, b.steps) < dive_diff * Max(a.steps, b.steps)
    \/ a.expired
    \/ b.expired

\* the neighbour n passes the test of the call on the examined cell p:
\* stopped (a cell of done), diverged and adjacent, and not both expired
\* with n small
Passes(p, n, cfg) ==
    /\ Diverged(p, n, cfg.dive_diff)
    /\ Adjacent(p, n)
    /\ ~(p.expired /\ SmallExpired(n))

\* C23, as stated: in dive(P), P is subdivided if and only if at least one
\* neighbour was split in this call, P is not yet in the dive-marker set and
\* P is not an expired cell with a small footprint.
C23_DiveSelfAsStated ==
    probe.fn = "dive"
    => (PSplit <=> /\ NSplit # {}
                   /\ probe.p.id \notin probe.marked
                   /\ ~SmallExpired(probe.p))

\* C23, as amended: in dive(P), P is subdivided if and only if at least one
\* neighbour passed the test in this call, whether it was split in this call
\* or was found in the dive-marker set already, and P is not yet in the
\* dive-marker set and P is not an expired cell with a small footprint.
C23_DiveSelf ==
    probe.fn = "dive"
    => (PSplit <=> /\ \/ NSplit # {}
                      \/ \E n \in (DOMAIN probe.nbrs) \ {probe.p.id} :
                            n \in probe.marked /\ Passes(probe.p, probe.nbrs[n], config)
                   /\ probe.p.id \notin probe.marked
                   /\ ~SmallExpired(probe.p))

\* the examined cell was split although the call split no neighbour: a
\* neighbour that passed the test was marked already
C23_Witness ==
    /\ probe.fn = "dive"
    /\ PSplit /\ NSplit = {}
    /\ \E n \in DOMAIN probe.nbrs : n \in probe.marked

\* C24: in dive(P), a neighbour N of P is subdivided exactly when N is in
\* the done set (stopped), N is not yet in the dive-marker set, P and N are
\* adjacent, and the smaller of their step counts over the larger is below
\* dive_diff or P is expired or N is expired, except when both are expired
\* and the width of N is below the small-footprint guard.
C24_DiveNeighbor ==
    probe.fn = "dive"
    => /\ NSplit \subseteq Range(probe.p.neighbors)
       /\ \A n \in Range(probe.p.neighbors) \ {probe.p.id} :
             n \in NSplit
             <=> /\ n \in DOMAIN probe.nbrs
                 /\ probe.nbrs[n].stopped
                 /\ n \notin probe.marked
                 /\ Adjacent(probe.p, probe.nbrs[n])
                 /\ Diverged(probe.p, probe.nbrs[n], config.dive_diff)
                 /\ ~(/\ probe.p.expired /\ probe.nbrs[n].expired
                      /\ CellWidth(probe.nbrs[n]) < SmallFootprint)

\* a call that split a neighbour and left another one alone, which is
\* expired and small while the examined cell is expired
C24_Witness ==
    /\ probe.fn = "dive"
    /\ NSplit # {}
    /\ \E n \in (DOMAIN probe.nbrs) \ NSplit :
          /\ n # probe.p.id /\ n \notin probe.marked
          /\ probe.p.expired /\ SmallExpired(probe.nbrs[n])
          /\ Adjacent(probe.p, probe.nbrs[n])

\* the cell the call of dive met under the id it handed to split
SplitCell(id) == IF id = probe.p.id THEN probe.p ELSE probe.nbrs[id]

\* C25: an expired cell whose width is below the small-footprint threshold
\* is never subdivided, neither as the cell dive examines nor as a
\* neighbour of that cell.
C25_SmallExpiredKept ==
    probe.fn = "dive" => \A id \in Range(probe.split) : ~SmallExpired(SplitCell(id))

\* every cell spawned from the cell id is stopped, and there is one
Resolved(id) == ChildrenOf(id) # {} /\ \A c \in ChildrenOf(id) : CellAt(c).stopped

\* C26: in each generation a parent of the done set all of whose direct
\* children are stopped is removed from the done set, so that the done set
\* keeps no cell whose children have all stopped; and a cell whose children
\* are not all stopped is never removed.
C26_ResolvedParentsRemoved ==
    /\ [](~panicked => \A id \in DOMAIN done : ~Resolved(id))
    /\ [][\A id \in (DOMAIN done) \ (DOMAIN done') : Resolved(id)']_vars

\* C27: the step count of a cell never exceeds the ceiling max_step;
\* a call of step on a cell that is not stopped and whose count has reached
\* the ceiling leaves the cell stopped and expired, with the step count and
\* the phase (theta2, dt2, prev) it had; and a cell that is expired is
\* stopped, in every state.
C27_Expiration ==
    /\ [](probe.fn = "step"
          => /\ probe.ph.c.steps <= config.max_step
             /\ probe.ph.c.expired => probe.ph.c.stopped)
    /\ [][(/\ probe.fn = "step"
           /\ ~probe.ph.c.stopped
           /\ probe.ph.c.steps >= config.max_step)
          => /\ probe'.ph.c.stopped /\ probe'.ph.c.expired
             /\ probe'.ph.c.steps = probe.ph.c.steps
             /\ probe'.ph.c.prev = probe.ph.c.prev
             /\ probe'.ph.theta2 = probe.ph.theta2
             /\ probe'.ph.dt2 = probe.ph.dt2
             /\ probe'.ph.prev = probe.ph.prev]_vars

\* a cell reached the ceiling by a step without a crossing, and the next
\* call of step expired it
C27_Witness ==
    /\ probe.fn = "step" /\ probe.n >= 2
    /\ probe.ph.c.expired /\ probe.ph.c.stopped
    /\ probe.ph.c.steps = config.max_step
    /\ IsFinite(probe.ph.theta2)

\* the cells a call of dive met: the examined cell and its neighbours in
\* done
DiveCells == {probe.p} \cup {probe.nbrs[n] : n \in DOMAIN probe.nbrs}

\* C28: the expiration ceiling of a cell is max_step divided by its scale:
\* a cell of scale s is expired only when its step count has reached
\* max_step / s, so that a cell of half the scale gets twice the budget.
C28_CeilingByScale ==
    probe.fn = "dive"
    => \A c \in DiveCells :
          /\ c.expired => c.steps * c.scale >= config.max_step * ScaleOne
          /\ c.steps * c.scale <= config.max_step * ScaleOne

\* C29: the number of steps a generation performs per cell, the value of
\* update_steps its update call reads, never decreases from one generation
\* to the next, from the first generation on, when no key changes it.
C29_StepsMonotone == [][update_steps' >= update_steps]_vars

\* the main thread is between the spawn of the workers and the end of
\* update
FanRunning == mpc \in {"send", "join", "drain"}

\* the fan-in is over: every worker has terminated and was joined, and
\* res_receiver.recv() has handed out every result and returns Err
FanOver ==
    /\ mpc = "drain" /\ DrainEnd
    /\ joined = NumWorkers
    /\ work = <<>> /\ unsent = {}
    /\ DOMAIN collected = sched.sent

\* C30: the fan-out and the fan-in of update never deadlock: for every
\* number of active cells, 0 included, no send on the channel of the work
\* or of the results blocks forever, every worker terminates, the join of
\* every worker returns and the loop that drains the results ends, although
\* the workers are joined before any result is read.
C30_FanNeverDeadlocks == FanRunning ~> FanOver

\* the fan-in of a generation of more cells than workers is over
C30_Witness == FanOver /\ cap > NumWorkers /\ Cardinality(DOMAIN collected) = cap

\* C31: with a finite max_step and a positive min_pixel, update called
\* again and again on the seeded root eventually reaches a state in which
\* the active set is empty.
C31_SweepTerminates == <>(DOMAIN ps = {})

\* C32: every cell of the done set has stopped = TRUE, in every state
\* reachable by add and update calls.
C32_DoneStopped == \A id \in DOMAIN done : done[id].stopped

\* the done set holds the root, stopped by force and split by the bootstrap,
\* a cell split by the dive pass and a cell that stopped and was not split
C32_Witness ==
    /\ ~panicked
    /\ 1 \in DOMAIN done /\ Len(done[1].childs) > 0
    /\ \E id \in DOMAIN done : id # 1 /\ id \in dive /\ Len(done[id].childs) > 0
    /\ \E id \in DOMAIN done : id # 1 /\ id \notin dive

\* the process died in one of the assertions on stopped (pendulum.rs:113,
\* 478), not in the unwrap of line 599, which is met in a bootstrap with
\* next empty
AssertionFailed == panicked /\ ~(gen.boot /\ gen.active0 = {})

\* the places split was executed from
SplitSites == {split_log[i].site : i \in 1..Len(split_log)}

\* C33: the assertions that guard subdivision never fail: split and dive are
\* called only on cells with stopped = TRUE, in dive_all for the newly
\* stopped cells, in dive for the neighbours taken from the done set, and
\* in the root bootstrap.
C33_AssertionsHold ==
    /\ ~AssertionFailed
    /\ \A i \in 1..Len(split_log) : split_log[i].stopped

\* split was executed in the root bootstrap, on a neighbour taken from done
\* and on the examined cell of dive, and the process is alive
C33_Witness ==
    /\ ~panicked
    /\ SplitSites = {"boot", "dive_n", "dive_p"}
    /\ Len(gen.stopped) > 0

====
